---- MODULE Spec2Model ----
(***************************************************************************)
(* A model of the turn-taking engine of the Qwen-Omni voice chat front     *)
(* end: the capture stage (ears.py, audio_recorder.py), the generation     *)
(* stage (processors.py), the playback stage (mouth.py) and the frame bus  *)
(* (core_pipeline.py).                                                     *)
(*                                                                         *)
(* Audio frames are identified by their capture number (1, 2, ...); an     *)
(* encoded payload is the sequence of the frames it was built from.        *)
(***************************************************************************)
EXTENDS Integers, Sequences, FiniteSets, TLC

\* ------------------------------------------------------------------------
\* Program constants
\* ------------------------------------------------------------------------
RATE == 16000
CHUNK == 512
END_BUFFER_FRAMES == 10
MIN_NEG_FRAMES_FOR_ENDING == 8
PRE_BUFFER_FRAMES == (1 * RATE) \div CHUNK
SPEECH_CONFIRM_FRAMES == 2
PRE_DETECTION_BUFFER_SIZE == (2 * RATE) \div CHUNK

\* ------------------------------------------------------------------------
\* Bounds of the model
\* ------------------------------------------------------------------------
\* frames fed to the capture stage in one run
MaxFrames == 66
\* the scenario of section 8: 50 silent, 5 speech, 40 silent frames; the
\* number of leading silent frames varies by ScenarioSlack around the nominal
ScenarioLead == 50
ScenarioSpeech == 5
ScenarioTrail == 40
ScenarioSlack == 2
\* frames read by the AudioRecorder listening thread in one run
MaxRecFrames == 23
\* a long utterance read by the AudioRecorder: two speech frames, then
\* LateGroups times LatePeriod - 1 silent frames and a speech frame, then
\* MaxLate frames of any kind
LateGroups == 5
LatePeriod == 8
MaxLate == 12
\* playback: chunks offered to Mouth, playback workers ever started, public
\* calls made by the controlling thread, and the clock (MaxTicks ticks of
\* TickMs milliseconds)
MaxChunks == 4
MaxWorkers == 2
MaxCalls == 2
MaxTicks == 1
TickMs == 1100
\* generation: response threads ever started, chunks of one response stream,
\* utterances of the user, and resets of the pipeline
MaxTurns == 3
MaxStream == 1
MaxUtterances == 2
MaxResets == 1
MaxData == 1
MaxLateChunks == 1
MaxLiveFrames == 4
MaxStops == 2
MaxLeftover == 1
\* frame bus: microphone frames read by the capture stage and DATA frames
\* queued on the later stages by enqueue_frame
MaxPipeFrames == 3
MaxPipeData == 2
\* the pipeline's life: frames the microphone callback queues, calls of start
MaxLifeFrames == 2
MaxStarts == 2
\* the other variants: utterances the recorder detects, events posted
MaxSpeech == 1
MaxMoreSpeech == 1
MaxEvents == 1
\* the turn-taking state machine of the Agent: events its threads post
MaxPosts == 2
MaxManagerPosts == 4

None == "None"

Min(a, b) == IF a < b THEN a ELSE b

VARIABLES
    ears,       \* the fields of the Ears processor
    ears_obs,   \* what an observer of Ears has seen (frames fed, frames sent)
    scen,       \* the input profile of the scenario (NoScenario: free input)
    rec,        \* the AudioRecorder: its fields and its listening thread's locals
    rec_obs,    \* what an observer of the AudioRecorder has seen
    mouth,      \* the fields of the Mouth processor
    workers,    \* the playback threads: position and locals of each
    ctl,        \* the thread that calls Mouth's stop operations: its position
    now,        \* the wall clock, in milliseconds
    mouth_obs,  \* what an observer of Mouth has seen
    ai,         \* the fields of the AIProcessor
    resp,       \* the response threads: position and locals of each
    ctx,        \* the ProcessorContext and the pipeline's is_running
    user,       \* the capture stage as the AIProcessor sees it
    ai_obs,     \* what an observer of the AIProcessor has seen
    pipe_obs,   \* what an observer of the frame bus has seen
    stages,     \* the processors as ProcessorBase: flag, queue and loop thread
    pl,         \* the pipeline's owner, the microphone callback, what was seen
    vc,         \* the QwenVoiceChat variant: flags, events and its threads
    sm,         \* the StateManager of the Agent variant and its event loop
    ui          \* the turn-taking state machines and the observer callback

vars == <<ears, ears_obs, scen, rec, rec_obs, mouth, workers, ctl, now, mouth_obs,
          ai, resp, ctx, user, ai_obs, pipe_obs, stages, pl, vc, sm, ui>>
lifeVars == <<stages, pl, vc, sm, ui>>
mouthVars == <<mouth, workers, ctl, now, mouth_obs>>
genVars == <<ai, resp, ctx, user, ai_obs>>
pipeVars == <<pipe_obs>>
earsVars == <<ears, ears_obs, scen>>
recVars == <<rec, rec_obs>>

\* ------------------------------------------------------------------------
\* Frame bus (core_pipeline.py)
\* ------------------------------------------------------------------------
SYSTEM == "SYSTEM"
DATA == "DATA"

\* Frame(type, data): the data map is reduced to the keys the stages read
Frame(type, event, command, payload) ==
    [type |-> type, event |-> event, command |-> command, payload |-> payload]

\* ------------------------------------------------------------------------
\* Capture stage: Ears (ears.py)
\* ------------------------------------------------------------------------
\* the rolling buffer sized to the pre-roll itself, so that the frame being
\* confirmed pushes the oldest pre-roll frame out
DequeAppendShort(q, x) ==
    IF Len(q) >= PRE_BUFFER_FRAMES THEN Append(Tail(q), x) ELSE Append(q, x)

\* collections.deque(maxlen=PRE_DETECTION_BUFFER_SIZE).append
DequeAppend(q, x) ==
    IF Len(q) >= PRE_DETECTION_BUFFER_SIZE THEN Append(Tail(q), x) ELSE Append(q, x)

EarsInit ==
    [ buffer |-> <<>>,
      speech_detected |-> FALSE,
      consecutive_speech_frames |-> 0,
      consecutive_silence_frames |-> 0,
      is_collecting_speech |-> FALSE,
      speech_frames |-> <<>>,
      speech_start_time |-> FALSE ]

\* frames_to_wav_base64: the frames are joined in order into one payload
frames_to_wav_base64(frames) == frames

\* Ears._end_speech_collection: returns the new fields and the frames sent
\* downstream
EndSpeechCollection(e) ==
    IF ~e.is_collecting_speech
    THEN [ears |-> e, out |-> <<>>]
    ELSE [ ears |-> [e EXCEPT !.is_collecting_speech = FALSE,
                              !.speech_detected = FALSE,
                              !.consecutive_speech_frames = 0,
                              !.consecutive_silence_frames = 0,
                              !.speech_start_time = FALSE,
                              !.speech_frames = <<>>],
           out |-> IF e.speech_frames # <<>>
                   THEN << Frame(SYSTEM, "speech_ready", None,
                                 frames_to_wav_base64(e.speech_frames)) >>
                   ELSE <<>> ]

\* the loop of lines 182-187: counts to END_BUFFER_FRAMES within one frame
RECURSIVE EndBufferLoop(_, _)
EndBufferLoop(e, buffer_count) ==
    IF buffer_count < END_BUFFER_FRAMES /\ e.is_collecting_speech
    THEN IF buffer_count + 1 >= END_BUFFER_FRAMES
         THEN LET r == EndSpeechCollection(e)
              IN  LET s == EndBufferLoop(r.ears, buffer_count + 1)
                  IN  [ears |-> s.ears, out |-> r.out \o s.out]
         ELSE EndBufferLoop(e, buffer_count + 1)
    ELSE [ears |-> e, out |-> <<>>]

\* a start test that one speech frame satisfies
SpeechStartsAtOnce(e) ==
    ~e.speech_detected /\ e.consecutive_speech_frames >= 1

\* a start test that forgets that the utterance has started
SpeechStartsAgain(e) ==
    e.consecutive_speech_frames >= SPEECH_CONFIRM_FRAMES

\* the speech start test of line 146
SpeechStarts(e) ==
    ~e.speech_detected /\ e.consecutive_speech_frames >= SPEECH_CONFIRM_FRAMES

\* Ears.process_frame for a DATA frame carrying audio_data: audio_data is the
\* frame, is_speech the classifier's verdict, over_max whether the wall clock
\* is past speech_start_time + MAX_SPEECH_DURATION
EarsProcessData(e, audio_data, is_speech, over_max) ==
    LET e1 == [e EXCEPT !.buffer = DequeAppend(e.buffer, audio_data),
                        !.consecutive_speech_frames =
                            IF is_speech THEN e.consecutive_speech_frames + 1 ELSE 0,
                        !.consecutive_silence_frames =
                            IF is_speech THEN 0 ELSE e.consecutive_silence_frames + 1]
        started == SpeechStarts(e1)
        e2 == IF started
              THEN [e1 EXCEPT !.speech_detected = TRUE,
                              !.is_collecting_speech = TRUE,
                              !.speech_start_time = TRUE,
                              !.speech_frames = e1.buffer]
              ELSE e1
        out2 == IF started
                THEN << Frame(SYSTEM, "user_interrupt", "clear_pipeline", <<>>),
                        Frame(SYSTEM, "speech_started", None, <<>>) >>
                ELSE <<>>
    IN  IF ~e2.is_collecting_speech
        THEN [ears |-> e2, out |-> out2]
        ELSE LET e3 == [e2 EXCEPT !.speech_frames = Append(e2.speech_frames, audio_data)]
             IN  IF e3.speech_start_time /\ over_max
                 THEN LET r == EndSpeechCollection(e3)
                      IN  [ears |-> r.ears, out |-> out2 \o r.out]
                 ELSE IF e3.consecutive_silence_frames >= MIN_NEG_FRAMES_FOR_ENDING
                      THEN LET r == EndBufferLoop(e3, 0)
                           IN  [ears |-> r.ears, out |-> out2 \o r.out]
                      ELSE [ears |-> e3, out |-> out2]

\* ------------------------------------------------------------------------
\* The observer of the capture stage
\* ------------------------------------------------------------------------
NoScenario == [lead |-> 0, speech |-> 0, trail |-> 0, n_ready |-> 0]

EarsObsInit ==
    [ frame_no |-> 0,        \* frames fed so far
      sent |-> <<>>,         \* frames sent downstream by the latest handler
      confirm_frame |-> 0,   \* the frame at which the utterance in progress
                             \* (or ended by the latest handler) started
      forced |-> FALSE,      \* the latest handler ended it by MAX_SPEECH_DURATION
      was_collecting |-> FALSE,  \* is_collecting_speech before the latest handler
      speech_run |-> 0,      \* the latest frames classified as speech, counted
                             \* up to SPEECH_CONFIRM_FRAMES
      silence_run |-> 0,     \* the latest frames classified as silence, counted
                             \* up to MIN_NEG_FRAMES_FOR_ENDING + END_BUFFER_FRAMES
      barge |-> 0 ]          \* user_interrupt frames sent for the utterance in
                             \* progress (or ended by the latest handler)

IsReady(f) == f.event = "speech_ready"

CountReady(out) == Cardinality({i \in 1..Len(out) : IsReady(out[i])})

\* feeding one microphone frame to Ears.process_frame
FeedFrame(is_speech, over_max) ==
    LET n == ears_obs.frame_no + 1
        r == EarsProcessData(ears, n, is_speech, over_max)
        started == \E i \in 1..Len(r.out) : r.out[i].event = "user_interrupt"
        barge_ins == Cardinality({i \in 1..Len(r.out) : r.out[i].event = "user_interrupt"})
    IN  /\ ears' = r.ears
        /\ ears_obs' = [ frame_no |-> n,
                         sent |-> r.out,
                         confirm_frame |->
                            IF started THEN n
                            ELSE IF ears.is_collecting_speech
                                 THEN ears_obs.confirm_frame ELSE 0,
                         forced |-> over_max /\ CountReady(r.out) > 0,
                         was_collecting |-> ears.is_collecting_speech,
                         speech_run |->
                            IF is_speech
                            THEN Min(ears_obs.speech_run + 1, SPEECH_CONFIRM_FRAMES)
                            ELSE 0,
                         silence_run |->
                            IF is_speech THEN 0
                            ELSE Min(ears_obs.silence_run + 1,
                                     MIN_NEG_FRAMES_FOR_ENDING + END_BUFFER_FRAMES),
                         barge |->
                            IF ears.is_collecting_speech
                            THEN ears_obs.barge + barge_ins ELSE barge_ins ]

\* a microphone frame with any verdict of the classifier
EarsFrame ==
    /\ scen = NoScenario
    /\ ears_obs.frame_no < MaxFrames
    /\ \E is_speech \in BOOLEAN :
         FeedFrame(is_speech, FALSE)
    /\ UNCHANGED <<scen, recVars, mouthVars, genVars, pipeVars, lifeVars>>

\* a microphone frame that arrives when the utterance has lasted longer than
\* MAX_SPEECH_DURATION
EarsFrameOverMax ==
    /\ scen = NoScenario
    /\ ears_obs.frame_no < MaxFrames
    /\ ears.is_collecting_speech
    /\ \E is_speech \in BOOLEAN :
         FeedFrame(is_speech, TRUE)
    /\ UNCHANGED <<scen, recVars, mouthVars, genVars, pipeVars, lifeVars>>

\* the scenario: lead silent frames, speech frames, trail silent frames
ScenarioLen == scen.lead + scen.speech + scen.trail

ScenarioIsSpeech(n) == n > scen.lead /\ n <= scen.lead + scen.speech

ScenarioFrame ==
    /\ ears_obs.frame_no < ScenarioLen
    /\ FeedFrame(ScenarioIsSpeech(ears_obs.frame_no + 1), FALSE)
    /\ scen' = [scen EXCEPT !.n_ready = @ + CountReady(ears_obs'.sent)]
    /\ UNCHANGED <<recVars, mouthVars, genVars, pipeVars, lifeVars>>

ScenarioInputs ==
    { [lead |-> l, speech |-> ScenarioSpeech, trail |-> ScenarioTrail, n_ready |-> 0] :
        l \in (ScenarioLead - ScenarioSlack)..(ScenarioLead + ScenarioSlack) }

\* ------------------------------------------------------------------------
\* Capture stage, thread-per-role variant: AudioRecorder (audio_recorder.py)
\* ------------------------------------------------------------------------
END_SILENCE_FRAMES == 45

RecInit ==
    [ long_buffer |-> <<>>,
      circular_buffer |-> <<>>,
      current_buffer_index |-> 0,
      speech_start_index |-> -1,
      speech_end_index |-> -1,
      first_speech_frame_index |-> -1,
      speech_detected_event |-> FALSE,
      speech_ended_event |-> FALSE,
      \* locals of _continuous_listening_thread
      speech_start_time |-> FALSE,
      consecutive_silence_count |-> 0,
      vad_positive_frames |-> 0,
      vad_negative_frames |-> 0,
      end_buffer_count |-> 0,
      is_ending |-> FALSE,
      potential_end_index |-> -1 ]

Max(a, b) == IF a > b THEN a ELSE b

\* "重置所有状态": the reset at the end of an utterance (lines 270-279, 346-355)
RecResetAll(r) ==
    [r EXCEPT !.speech_start_time = FALSE,
              !.is_ending = FALSE,
              !.end_buffer_count = 0,
              !.vad_positive_frames = 0,
              !.vad_negative_frames = 0,
              !.consecutive_silence_count = 0,
              !.potential_end_index = -1,
              !.first_speech_frame_index = -1]

\* the start index of lines 288-301
RecStartIndex(r) ==
    IF r.first_speech_frame_index > 0
    THEN LET actual_pre_buffer ==
                 Min(PRE_BUFFER_FRAMES,
                     r.current_buffer_index - r.first_speech_frame_index
                        + SPEECH_CONFIRM_FRAMES)
         IN  Max(0, r.first_speech_frame_index - actual_pre_buffer)
    ELSE Max(0, r.current_buffer_index - PRE_BUFFER_FRAMES)

\* the end index of lines 334-341
RecEndIndex(r) ==
    IF r.potential_end_index > 0 THEN r.potential_end_index
    ELSE r.current_buffer_index

\* the end detection of lines 309-355
RecEndDetection(r) ==
    LET r1 == IF ~r.is_ending
                 /\ (r.vad_negative_frames >= MIN_NEG_FRAMES_FOR_ENDING
                     \/ r.consecutive_silence_count >= END_SILENCE_FRAMES)
              THEN [r EXCEPT !.is_ending = TRUE,
                             !.end_buffer_count = 0,
                             !.potential_end_index = r.current_buffer_index]
              ELSE r
    IN  IF ~r1.is_ending THEN r1
        ELSE LET r2 == [r1 EXCEPT !.end_buffer_count = @ + 1]
             IN  IF r2.end_buffer_count >= END_BUFFER_FRAMES
                 THEN RecResetAll([r2 EXCEPT !.speech_end_index = RecEndIndex(r2),
                                             !.speech_ended_event = TRUE])
                 ELSE r2

\* one iteration of the loop of _continuous_listening_thread (lines 206-355):
\* data is the frame read, is_speech_vad the verdict of vad_predict, over_max
\* whether the utterance has lasted longer than MAX_SPEECH_DURATION
RecIteration(r, data, is_speech_vad, over_max) ==
    LET r1 == [r EXCEPT !.long_buffer = Append(@, data),
                        !.current_buffer_index = @ + 1,
                        !.circular_buffer = DequeAppend(@, data)]
        r2 == IF is_speech_vad /\ r1.first_speech_frame_index = -1 /\ ~r1.speech_start_time
              THEN [r1 EXCEPT !.first_speech_frame_index = r1.current_buffer_index]
              ELSE r1
        r3 == IF is_speech_vad
              THEN LET a == [r2 EXCEPT !.vad_positive_frames = @ + 1,
                                       !.vad_negative_frames = 0]
                   IN  IF a.is_ending
                       THEN [a EXCEPT !.is_ending = FALSE,
                                      !.end_buffer_count = 0,
                                      !.potential_end_index = -1]
                       ELSE a
              ELSE [r2 EXCEPT !.vad_negative_frames = @ + 1,
                              !.vad_positive_frames = 0,
                              !.consecutive_silence_count =
                                  IF r2.speech_start_time THEN @ + 1 ELSE @]
        is_speech == r3.vad_positive_frames >= SPEECH_CONFIRM_FRAMES
    IN  IF r3.speech_start_time /\ over_max
        THEN RecResetAll([r3 EXCEPT !.speech_end_index = r3.current_buffer_index,
                                    !.speech_ended_event = TRUE])
        ELSE IF is_speech /\ ~r3.speech_start_time
             THEN [r3 EXCEPT !.speech_start_time = TRUE,
                             !.speech_start_index = RecStartIndex(r3),
                             !.speech_detected_event = TRUE,
                             !.consecutive_silence_count = 0]
             ELSE IF r3.speech_start_time
                  THEN RecEndDetection(r3)
                  ELSE r3

RecObsInit ==
    [ ended |-> FALSE,         \* the latest iteration confirmed an end
      forced |-> FALSE,        \* ... by MAX_SPEECH_DURATION
      silence_from |-> 0,      \* index of the first frame of the silence run
                               \* that the latest frame belongs to (0: speech)
      confirmed_at |-> 0,      \* index at which the latest end was confirmed
      error |-> FALSE,         \* vad_predict raised on the latest frame
      got |-> FALSE,           \* get_speech_frames has returned since the
                               \* latest frame
      frames |-> <<>> ]        \* ... and this is what it returned

RecStep(is_speech_vad, over_max) ==
    LET n == rec.current_buffer_index + 1
        r == RecIteration(rec, n, is_speech_vad, over_max)
        ended == rec.speech_start_time /\ ~r.speech_start_time
    IN  /\ rec' = r
        /\ rec_obs' = [ ended |-> ended,
                        forced |-> ended /\ over_max,
                        silence_from |->
                            IF is_speech_vad THEN 0
                            ELSE IF rec_obs.silence_from = 0 THEN n
                                 ELSE rec_obs.silence_from,
                        confirmed_at |-> IF ended THEN n ELSE rec_obs.confirmed_at,
                        error |-> FALSE,
                        got |-> FALSE,
                        frames |-> <<>> ]

\* the listening thread reads one frame
RecFrame ==
    /\ rec.current_buffer_index < MaxRecFrames
    /\ \E is_speech_vad \in BOOLEAN : RecStep(is_speech_vad, FALSE)
    /\ UNCHANGED <<earsVars, mouthVars, genVars, pipeVars, lifeVars>>

\* ... when the utterance has lasted longer than MAX_SPEECH_DURATION
RecFrameOverMax ==
    /\ rec.current_buffer_index < MaxRecFrames
    /\ rec.speech_start_time
    /\ \E is_speech_vad \in BOOLEAN : RecStep(is_speech_vad, TRUE)
    /\ UNCHANGED <<earsVars, mouthVars, genVars, pipeVars, lifeVars>>

\* an iteration in which vad_predict raises: the frame has been appended to
\* both buffers (lines 216-222), the exception leaves the body of the loop
\* for the handler of lines 360-362 and the loop goes on
RecIterationError(r, data) ==
    [r EXCEPT !.long_buffer = Append(@, data),
              !.current_buffer_index = @ + 1,
              !.circular_buffer = DequeAppend(@, data)]

\* the listening thread reads one frame and the classifier fails on it
RecFrameError ==
    /\ rec.current_buffer_index < MaxRecFrames
    /\ rec' = RecIterationError(rec, rec.current_buffer_index + 1)
    /\ rec_obs' = [rec_obs EXCEPT !.ended = FALSE, !.forced = FALSE, !.error = TRUE,
                                  !.got = FALSE, !.frames = <<>>]
    /\ UNCHANGED <<earsVars, mouthVars, genVars, pipeVars, lifeVars>>

\* list(q)[a:b] of Python, for 0 <= a and 0 <= b
Slice(q, a, b) == SubSeq(q, a + 1, Min(b, Len(q)))

\* get_speech_frames (lines 369-408)
GetSpeechFrames(r) ==
    IF r.speech_start_index < 0 \/ r.speech_end_index < 0 THEN <<>>
    ELSE LET buffer_size == Len(r.long_buffer)
         IN  IF buffer_size = 0 THEN <<>>
             ELSE LET relative_start ==
                          (r.speech_start_index - r.current_buffer_index + buffer_size)
                              % buffer_size
                      relative_end ==
                          (r.speech_end_index - r.current_buffer_index + buffer_size)
                              % buffer_size
                  IN  IF relative_start <= relative_end
                      THEN Slice(r.long_buffer, relative_start, relative_end)
                      ELSE Slice(r.long_buffer, relative_start, buffer_size)
                             \o Slice(r.long_buffer, 0, relative_end)

\* a caller takes the utterance out of the ring
RecGetSpeechFrames ==
    /\ ~rec_obs.got
    /\ rec_obs' = [rec_obs EXCEPT !.got = TRUE, !.frames = GetSpeechFrames(rec)]
    /\ UNCHANGED <<rec, earsVars, mouthVars, genVars, pipeVars, lifeVars>>

\* record_until_silence gives up waiting for the end of the utterance and
\* fixes the end index itself (lines 431-439)
RecEndTimeout ==
    /\ rec.speech_detected_event
    /\ ~rec.speech_ended_event
    /\ rec.speech_end_index < 0
    /\ rec' = [rec EXCEPT !.speech_end_index = rec.current_buffer_index]
    /\ rec_obs' = [rec_obs EXCEPT !.got = FALSE, !.frames = <<>>]
    /\ UNCHANGED <<earsVars, mouthVars, genVars, pipeVars, lifeVars>>

\* ------------------------------------------------------------------------
\* Playback stage: Mouth (mouth.py)
\* ------------------------------------------------------------------------
\* config.py: FADE_OUT_DURATION and MAX_FINISH_DURATION, in milliseconds
FADE_OUT_DURATION == 150
MAX_FINISH_DURATION == 250
\* _play_audio_continuous: min_buffer_size, the size of a written piece, the
\* wait for more audio and check_interval (bytes, bytes, ms, ms)
MIN_BUFFER_SIZE == 1024
PIECE_SIZE == 2048
AUDIO_WAIT == 1000
CHECK_INTERVAL == 5
\* a decoded chunk is taken to be one piece long
CHUNK_BYTES == 2048
\* config.py: PLAYER_RATE; the stream is opened mono, 16 bits a sample
PLAYER_RATE == 24000
SAMPLE_BYTES == 2
\* the time a chunk takes to play, in milliseconds
ChunkMs == (CHUNK_BYTES * 1000) \div (SAMPLE_BYTES * PLAYER_RATE)

MouthInit ==
    [ stream |-> 0,               \* 0: None, k: the k-th stream opened
      audio_queue |-> <<>>,
      is_playing |-> FALSE,
      should_stop |-> FALSE,
      smooth_interrupt |-> FALSE,
      buffer_empty |-> TRUE,
      playback_finished |-> FALSE,
      fade_out_enabled |-> TRUE,
      fade_out_duration |-> FADE_OUT_DURATION,
      fade_out_active |-> FALSE,
      fade_out_start_time |-> -1,  \* -1: None
      max_finish_duration |-> MAX_FINISH_DURATION,
      interrupt_time |-> -1,
      last_audio_time |-> -1,
      playback_thread |-> 0,       \* 0: None, k: the k-th playback thread
      stream_lock |-> 0,           \* 0: free, k: held by playback thread k
      streams_opened |-> 0,
      open_streams |-> {},         \* the streams of self.p opened and not closed
      input_queue |-> <<>> ]

WorkerIds == 1..MaxWorkers

\* a playback thread: its position in _play_audio_continuous and its locals
WorkerInit ==
    [ pc |-> "unborn", buffer |-> <<>>, current_time |-> 0, last_check_time |-> 0,
      written |-> 0, piecewise |-> FALSE ]

WorkersInit == [w \in WorkerIds |-> WorkerInit]

\* Thread.is_alive()
IsAlive(ws, w) == w # 0 /\ ws[w].pc \notin {"unborn", "dead"}

\* the result of an operation of Mouth: its fields and the playback threads
MW(m, ws) == [m |-> m, ws |-> ws]

\* Mouth.stop_stream, entered with stream_lock free or re-entered by its holder
StopStream(m, ws) ==
    LET m1 == [m EXCEPT !.should_stop = TRUE]
    IN  IF m1.stream # 0
        THEN MW([m1 EXCEPT !.audio_queue = <<>>,
                           !.open_streams = @ \ {m1.stream},
                           !.stream = 0,
                           !.buffer_empty = TRUE,
                           !.playback_finished = TRUE,
                           !.is_playing = FALSE,
                           !.smooth_interrupt = FALSE,
                           !.fade_out_active = FALSE,
                           !.playback_thread = 0], ws)
        ELSE MW(m1, ws)

\* the thread that start_stream starts: the first one not yet used
FreshWorker(ws) ==
    IF \E w \in WorkerIds : ws[w].pc = "unborn"
    THEN CHOOSE w \in WorkerIds :
            ws[w].pc = "unborn" /\ \A v \in WorkerIds : v < w => ws[v].pc # "unborn"
    ELSE 0

\* Mouth.start_stream
StartStream(m, ws, t) ==
    LET r == IF m.stream # 0 THEN StopStream(m, ws) ELSE MW(m, ws)
        w == FreshWorker(ws)
        m1 == [r.m EXCEPT !.stream = m.streams_opened + 1,
                          !.open_streams = @ \cup {m.streams_opened + 1},
                          !.streams_opened = m.streams_opened + 1,
                          !.is_playing = TRUE,
                          !.should_stop = FALSE,
                          !.buffer_empty = TRUE,
                          !.last_audio_time = -1,
                          !.smooth_interrupt = FALSE,
                          !.interrupt_time = -1,
                          !.fade_out_active = FALSE,
                          !.fade_out_start_time = -1,
                          !.playback_finished = FALSE,
                          !.playback_thread = w]
    IN  MW(m1, [r.ws EXCEPT ![w] = [WorkerInit EXCEPT !.pc = "top",
                                                     !.last_check_time = t]])

\* whether add_audio_data will call start_stream
NeedsStart(m, ws) ==
    ~m.is_playing \/ m.playback_thread = 0 \/ ~IsAlive(ws, m.playback_thread)

\* Mouth.add_audio_data at time t; audio_data is a base64 chunk of the
\* response stream
AddAudioData(m, ws, audio_data, t) ==
    LET m1 == IF m.is_playing /\ (m.playback_thread = 0 \/ ~IsAlive(ws, m.playback_thread))
              THEN [m EXCEPT !.is_playing = FALSE, !.stream = 0]
              ELSE m
        r == IF ~m1.is_playing THEN StartStream(m1, ws, t) ELSE MW(m1, ws)
    IN  IF r.m.should_stop /\ ~r.m.smooth_interrupt
        THEN r
        ELSE IF r.m.smooth_interrupt /\ r.m.interrupt_time # -1
                /\ t - r.m.interrupt_time > r.m.max_finish_duration
             THEN MW([r.m EXCEPT !.playback_finished = FALSE], r.ws)
             ELSE MW([r.m EXCEPT !.playback_finished = FALSE,
                                 !.audio_queue = Append(@, audio_data),
                                 !.buffer_empty = FALSE,
                                 !.last_audio_time = t], r.ws)

\* Mouth.is_audio_complete
IsAudioComplete(m) == m.buffer_empty /\ m.audio_queue = <<>>

\* Mouth.stop_immediately up to its call of stop_stream (lines 397-409)
StopImmediatelyFlags(m) ==
    [m EXCEPT !.should_stop = TRUE, !.smooth_interrupt = FALSE, !.audio_queue = <<>>]

\* Mouth.request_smooth_interrupt
RequestSmoothInterrupt(m, t) ==
    IF ~m.is_playing THEN m
    ELSE [m EXCEPT !.smooth_interrupt = TRUE, !.should_stop = TRUE, !.interrupt_time = t]

\* Mouth.stop_with_fadeout(fadeout_time) with fadeout_time > 0
StopWithFadeout(m, fadeout_time, t) ==
    RequestSmoothInterrupt([m EXCEPT !.fade_out_duration = fadeout_time], t)

\* Mouth.process_frame for the SYSTEM command "pause"
Pause(m, t) ==
    [m EXCEPT !.smooth_interrupt = TRUE, !.should_stop = TRUE, !.interrupt_time = t]

\* the part of process_frame("clear_pipeline") after stop_immediately
ClearAfterStop(m) == [m EXCEPT !.audio_queue = <<>>, !.buffer_empty = TRUE]

\* ---- the playback thread: Mouth._play_audio_continuous ----
\* the loop is left (break, or the loop test fails): the locals are dead
Leave(ws, w) == [ws EXCEPT ![w] = [WorkerInit EXCEPT !.pc = "finally"]]

\* the loop condition of line 168
LoopCondition(m) == m.is_playing /\ (~m.should_stop \/ m.smooth_interrupt)

HardStop(m) == m.should_stop /\ ~m.smooth_interrupt

\* the drain loop of lines 192-201: the chunks it moves from the queue
RECURSIVE DrainCount(_, _, _)
DrainCount(m, left, chunks_processed) ==
    IF left = 0 THEN 0
    ELSE IF (chunks_processed + 1) % 5 = 0 /\ HardStop(m) THEN 0
         ELSE 1 + DrainCount(m, left - 1, chunks_processed + 1)

\* lines 168-206: the loop test, the fade-out start, the wait limit and the
\* drain of the queue
WorkerTop(m, ws, w, t) ==
    IF ~LoopCondition(m)
    THEN MW(m, Leave(ws, w))
    ELSE LET m1 == IF m.smooth_interrupt /\ m.interrupt_time # -1
                      /\ m.fade_out_enabled /\ ~m.fade_out_active
                   THEN [m EXCEPT !.fade_out_active = TRUE, !.fade_out_start_time = t]
                   ELSE m
         IN  IF m1.smooth_interrupt /\ m1.interrupt_time # -1
                /\ (t - m1.interrupt_time) * 10 > m1.max_finish_duration * 8
             THEN MW(m1, Leave(ws, w))
             ELSE LET k == DrainCount(m1, Len(m1.audio_queue), 0)
                      m2 == [m1 EXCEPT !.audio_queue = SubSeq(@, k + 1, Len(@))]
                      buf == ws[w].buffer \o SubSeq(m1.audio_queue, 1, k)
                  IN  MW(m2, [ws EXCEPT ![w].pc = "play",
                                        ![w].current_time = t,
                                        ![w].buffer = buf])

\* lines 203-245: the stop test after the drain and whether to play the
\* buffer, up to taking stream_lock
WorkerPlay(m, ws, w) ==
    LET me == ws[w]
        bytes == Len(me.buffer) * CHUNK_BYTES
    IN  IF HardStop(m)
        THEN MW(m, Leave(ws, w))
        ELSE IF ~(bytes >= MIN_BUFFER_SIZE \/ (bytes > 0 /\ m.audio_queue = <<>>))
        THEN MW(m, [ws EXCEPT ![w].pc = "tail"])
        ELSE IF m.fade_out_active /\ m.fade_out_start_time # -1
                /\ (me.current_time - m.fade_out_start_time) * 10 >= m.fade_out_duration * 6
             THEN MW(m, Leave(ws, w))
             ELSE IF m.smooth_interrupt /\ m.interrupt_time # -1
                     /\ (me.current_time - m.interrupt_time) * 10 > m.max_finish_duration * 4
                  THEN MW(m, Leave(ws, w))
                  ELSE IF m.stream # 0 /\ (~m.should_stop \/ m.smooth_interrupt)
                       THEN MW([m EXCEPT !.stream_lock = w],
                               [ws EXCEPT ![w].pc = "write",
                                          ![w].written = 0,
                                          ![w].piecewise = bytes > PIECE_SIZE
                                                           /\ ~m.smooth_interrupt])
                       ELSE MW(m, [ws EXCEPT ![w].pc = "tail", ![w].buffer = <<>>])

\* lines 246-264: one stream.write; the chunks it writes
WriteCount(me) == IF me.piecewise THEN 1 ELSE Len(me.buffer)

\* whether the piece loop of lines 250-256 stops before the next piece
WriteBreaks(m, me) == me.piecewise /\ me.written > 0 /\ HardStop(m)

\* lines 266-288: the end of an iteration
WorkerTail(m, ws, w) ==
    LET me == ws[w]
        idle == m.audio_queue = <<>> /\ me.buffer = <<>>
    IN  IF idle /\ m.smooth_interrupt
        THEN MW(m, Leave(ws, w))
        ELSE IF idle /\ m.last_audio_time # -1
                /\ me.current_time - m.last_audio_time > AUDIO_WAIT
             THEN MW(m, Leave(ws, w))
             ELSE IF me.current_time - me.last_check_time >= CHECK_INTERVAL
                  THEN IF HardStop(m)
                       THEN MW(m, Leave(ws, w))
                       ELSE MW(m, [ws EXCEPT ![w].pc = "top",
                                             ![w].last_check_time = me.current_time])
                  ELSE MW(m, [ws EXCEPT ![w].pc = "top"])

\* lines 295-300: the flags reset in the finally block
WorkerFinally(m, ws, w) ==
    MW([m EXCEPT !.is_playing = FALSE,
                 !.should_stop = FALSE,
                 !.playback_finished = TRUE,
                 !.buffer_empty = TRUE],
       [ws EXCEPT ![w].pc = "close"])

\* lines 302-311: the stream closed under stream_lock
WorkerClose(m, ws, w) ==
    MW([m EXCEPT !.open_streams = @ \ {m.stream}, !.stream = 0],
       [ws EXCEPT ![w].pc = "exit"])

\* line 316, after which the thread ends
WorkerExit(m, ws, w) ==
    MW([m EXCEPT !.playback_thread = 0], [ws EXCEPT ![w].pc = "dead"])

\* ---- Mouth as run by its callers, its playback threads and the clock ----
\* what the specification's P5 calls the terminal state of Playback
TerminalState(m) ==
    [ audio_queue |-> m.audio_queue, stream |-> m.stream, is_playing |-> m.is_playing,
      should_stop |-> m.should_stop, smooth_interrupt |-> m.smooth_interrupt,
      fade_out_active |-> m.fade_out_active ]

\* no call of Mouth is under way and no playback thread is running
Quiescent(ws, c) == c.pc = "idle" /\ \A w \in WorkerIds : ~IsAlive(ws, w)

MouthObsInit ==
    [ offered |-> 0,       \* chunks offered to add_audio_data
      calls |-> 0,         \* calls made by the controlling thread
      device |-> <<>>,     \* the chunks written to the device, in order
      last |-> "none",     \* the last call of Mouth that was made
      once |-> {},         \* the terminal state a first stop_immediately left
      fade_at |-> -1,      \* chunks on the device when a fade-out stop was asked
      fade_for |-> 0 ]     \* ... and the fade-out duration then in force

\* a fade-out stop is asked of a playing Mouth
ObsFade(o, m) ==
    IF m.is_playing /\ o.fade_at = -1
    THEN [o EXCEPT !.fade_at = Len(o.device), !.fade_for = m.fade_out_duration]
    ELSE o

CtlInit == [pc |-> "idle"]

Apply(r) == mouth' = r.m /\ workers' = r.ws

OtherVars == <<earsVars, recVars, genVars, pipeVars, lifeVars>>

\* the response stream delivers a chunk: process_frame(play_audio)
MouthPlayAudio ==
    /\ mouth_obs.offered < MaxChunks
    /\ mouth.stream_lock = 0 \/ ~NeedsStart(mouth, workers)
    /\ NeedsStart(mouth, workers) => FreshWorker(workers) # 0
    /\ Apply(AddAudioData(mouth, workers, mouth_obs.offered + 1, now))
    /\ mouth_obs' = [mouth_obs EXCEPT
            !.offered = @ + 1, !.last = "other", !.once = {},
            !.fade_at = IF mouth'.streams_opened # mouth.streams_opened THEN -1 ELSE @]
    /\ UNCHANGED <<ctl, now, OtherVars>>

\* process_frame("stop"): stop_immediately, up to its call of stop_stream
MouthStop ==
    /\ ctl.pc = "idle"
    /\ mouth_obs.calls < MaxCalls
    /\ mouth' = StopImmediatelyFlags(mouth)
    /\ ctl' = [ctl EXCEPT !.pc = "stop_stream"]
    /\ mouth_obs' = [mouth_obs EXCEPT
            !.calls = @ + 1,
            !.last = "stopping",
            !.once = IF mouth_obs.last = "stop" /\ Quiescent(workers, ctl)
                     THEN {TerminalState(mouth)} ELSE {}]
    /\ UNCHANGED <<workers, now, OtherVars>>

\* ... and stop_stream, once stream_lock is free
MouthStopStream ==
    /\ ctl.pc = "stop_stream"
    /\ mouth.stream_lock = 0
    /\ Apply(StopStream(mouth, workers))
    /\ ctl' = [ctl EXCEPT !.pc = "idle"]
    /\ mouth_obs' = [mouth_obs EXCEPT !.last = IF @ = "stopping" THEN "stop" ELSE @]
    /\ UNCHANGED <<now, OtherVars>>

\* process_frame("clear_pipeline"): stop_immediately, then the queue emptied
MouthClearPipeline ==
    /\ ctl.pc = "idle"
    /\ mouth_obs.calls < MaxCalls
    /\ mouth' = StopImmediatelyFlags(mouth)
    /\ ctl' = [ctl EXCEPT !.pc = "clear_stop_stream"]
    /\ mouth_obs' = [mouth_obs EXCEPT !.calls = @ + 1, !.last = "other", !.once = {}]
    /\ UNCHANGED <<workers, now, OtherVars>>

MouthClearStopStream ==
    /\ ctl.pc = "clear_stop_stream"
    /\ mouth.stream_lock = 0
    /\ LET r == StopStream(mouth, workers)
       IN  Apply(MW(ClearAfterStop(r.m), r.ws))
    /\ ctl' = [ctl EXCEPT !.pc = "idle"]
    /\ UNCHANGED <<now, mouth_obs, OtherVars>>

\* process_frame("pause")
MouthPause ==
    /\ ctl.pc = "idle"
    /\ mouth_obs.calls < MaxCalls
    /\ mouth' = Pause(mouth, now)
    /\ mouth_obs' = [ObsFade(mouth_obs, mouth') EXCEPT
            !.calls = @ + 1, !.last = "other", !.once = {}]
    /\ UNCHANGED <<workers, ctl, now, OtherVars>>

\* stop_with_fadeout(0.1), the fade-out stop
MouthStopWithFadeout ==
    /\ ctl.pc = "idle"
    /\ mouth_obs.calls < MaxCalls
    /\ mouth' = StopWithFadeout(mouth, 100, now)
    /\ mouth_obs' = [ObsFade(mouth_obs, mouth') EXCEPT
            !.calls = @ + 1, !.last = "other", !.once = {}]
    /\ UNCHANGED <<workers, ctl, now, OtherVars>>

PlayTop(w) ==
    /\ workers[w].pc = "top"
    /\ Apply(WorkerTop(mouth, workers, w, now))
    /\ UNCHANGED <<ctl, now, mouth_obs, OtherVars>>

PlayDecide(w) ==
    /\ workers[w].pc = "play"
    /\ mouth.stream_lock = 0
    /\ Apply(WorkerPlay(mouth, workers, w))
    /\ UNCHANGED <<ctl, now, mouth_obs, OtherVars>>

\* one stream.write of the playback thread
PlayWrite(w) ==
    /\ workers[w].pc = "write"
    /\ workers[w].buffer # <<>>
    /\ ~WriteBreaks(mouth, workers[w])
    /\ LET k == WriteCount(workers[w])
       IN  /\ workers' = [workers EXCEPT ![w].buffer = SubSeq(@, k + 1, Len(@)),
                                         ![w].written = @ + k]
           /\ mouth_obs' = [mouth_obs EXCEPT
                               !.device = @ \o SubSeq(workers[w].buffer, 1, k)]
    /\ UNCHANGED <<mouth, ctl, now, OtherVars>>

\* the writes are over (all written, or stopped between two pieces):
\* buffer = b"" and stream_lock released
PlayWritten(w) ==
    /\ workers[w].pc = "write"
    /\ workers[w].buffer = <<>> \/ WriteBreaks(mouth, workers[w])
    /\ workers' = [workers EXCEPT ![w].buffer = <<>>, ![w].pc = "tail",
                                  ![w].written = 0, ![w].piecewise = FALSE]
    /\ mouth' = [mouth EXCEPT !.stream_lock = 0]
    /\ UNCHANGED <<ctl, now, mouth_obs, OtherVars>>

PlayTail(w) ==
    /\ workers[w].pc = "tail"
    /\ Apply(WorkerTail(mouth, workers, w))
    /\ UNCHANGED <<ctl, now, mouth_obs, OtherVars>>

PlayFinally(w) ==
    /\ workers[w].pc = "finally"
    /\ Apply(WorkerFinally(mouth, workers, w))
    /\ UNCHANGED <<ctl, now, mouth_obs, OtherVars>>

PlayClose(w) ==
    /\ workers[w].pc = "close"
    /\ mouth.stream_lock = 0
    /\ Apply(WorkerClose(mouth, workers, w))
    /\ UNCHANGED <<ctl, now, mouth_obs, OtherVars>>

PlayExit(w) ==
    /\ workers[w].pc = "exit"
    /\ Apply(WorkerExit(mouth, workers, w))
    /\ UNCHANGED <<ctl, now, mouth_obs, OtherVars>>

\* the clock advances
Tick ==
    /\ now < MaxTicks * TickMs
    /\ now' = now + TickMs
    /\ UNCHANGED <<mouth, workers, ctl, mouth_obs, OtherVars>>

PlaybackThread ==
    \E w \in WorkerIds :
        \/ PlayTop(w)
        \/ PlayDecide(w)
        \/ PlayWrite(w)
        \/ PlayWritten(w)
        \/ PlayTail(w)
        \/ PlayFinally(w)
        \/ PlayClose(w)
        \/ PlayExit(w)

\* ---- the listening thread late in a long utterance ----
LatePrefix == SPEECH_CONFIRM_FRAMES + LateGroups * LatePeriod

\* the verdict of vad_predict on the n-th frame of the long utterance
LateVerdict(n) ==
    n <= SPEECH_CONFIRM_FRAMES \/ (n - SPEECH_CONFIRM_FRAMES) % LatePeriod = 0

\* the listening thread reads the next frame of the long utterance
RecLateFrame ==
    /\ rec.current_buffer_index < LatePrefix + MaxLate
    /\ \E is_speech_vad \in
            (IF rec.current_buffer_index < LatePrefix
             THEN {LateVerdict(rec.current_buffer_index + 1)}
             ELSE BOOLEAN) :
         RecStep(is_speech_vad, FALSE)
    /\ UNCHANGED <<earsVars, mouthVars, genVars, pipeVars, lifeVars>>

\* ------------------------------------------------------------------------
\* Generation stage: AIProcessor (processors.py) and the ProcessorContext
\* ------------------------------------------------------------------------
\* ProcessorContext.__init__ and ConversationPipeline.__init__; session_id is
\* a fresh uuid each time, numbered here in the order drawn
CtxInit == [session_id |-> 1, cancelled |-> FALSE, is_running |-> FALSE]

AIInit ==
    [ messages |-> <<>>,
      full_transcript |-> <<>>,
      response_thread |-> 0,           \* 0: None, k: the k-th response thread
      is_generating |-> FALSE,
      current_request_id |-> 0,        \* 0: None, k: the id of thread k's request
      completed_request_ids |-> {},    \* the ids of the requests of TurnIds in it
      completed_earlier |-> 0,         \* the number of ids in it of the requests
                                       \* of response threads that ended earlier
      input_queue |-> <<>> ]

TurnIds == 1..MaxTurns

\* lines 352-355: the size over which completed_request_ids is pruned, and
\* the number of ids the pruning keeps
COMPLETED_OVER == 100
COMPLETED_KEPT == 50

\* a response thread: its position in _generate_response and its locals
RespThreadInit ==
    [ pc |-> "unborn", request_id |-> 0, chunk_count |-> 0, chunk |-> "none",
      interrupted |-> FALSE, ai_text |-> FALSE, current_transcript |-> FALSE ]

RespInit == [t \in TurnIds |-> RespThreadInit]

\* the thread _start_response_thread starts: the first one not yet used
FreshTurn(rs) ==
    IF \E t \in TurnIds : rs[t].pc = "unborn"
    THEN CHOOSE t \in TurnIds :
            rs[t].pc = "unborn" /\ \A v \in TurnIds : v < t => rs[v].pc # "unborn"
    ELSE 0

Running(rs, t) == rs[t].pc \notin {"unborn", "done"}

\* the result of an operation of the AIProcessor: its fields, the response
\* threads and the frames it sent downstream
AR(a, rs, out) == [ai |-> a, rs |-> rs, out |-> out]

\* AIProcessor._interrupt_response
InterruptResponse(a, rs) ==
    LET a1 == [a EXCEPT !.is_generating = FALSE,
                        !.completed_request_ids =
                            IF a.current_request_id # 0
                            THEN @ \cup {a.current_request_id} ELSE @]
    IN  AR(a1, rs, <<Frame(SYSTEM, None, "stop", None)>>)

\* process_frame(user_interrupt) after _interrupt_response, when the command
\* is clear_pipeline (lines 56-64)
ClearPipeline(a, rs) ==
    AR([a EXCEPT !.input_queue = <<>>], rs,
       <<Frame(SYSTEM, "user_interrupt", "clear_pipeline", None)>>)

\* an entry of the conversation history: its role, the utterance or turn it
\* belongs to, and what its content is taken from
Message(role, of, text) == [role |-> role, of |-> of, text |-> text]

\* AIProcessor._start_response_thread
StartResponseThread(a, rs) ==
    IF a.is_generating
    THEN AR(a, rs, <<>>)
    ELSE LET t == FreshTurn(rs)
         IN  AR([a EXCEPT !.is_generating = TRUE, !.response_thread = t],
                [rs EXCEPT ![t] = [RespThreadInit EXCEPT !.pc = "create"]], <<>>)

\* process_frame(speech_ready) and process_frame of a DATA audio_data frame:
\* the user message u is appended and a response asked for
SpeechReady(a, rs, u) ==
    StartResponseThread([a EXCEPT !.messages = Append(@, Message("user", u, "input_audio"))],
                        rs)

\* AIProcessor.process_frame for a SYSTEM frame
AIProcessSystem(a, rs, frame) ==
    IF frame.event = "user_interrupt"
    THEN LET r1 == InterruptResponse(a, rs)
         IN  IF frame.command = "clear_pipeline"
             THEN LET r2 == ClearPipeline(r1.ai, r1.rs)
                  IN  AR(r2.ai, r2.rs, r1.out \o r2.out)
             ELSE r1
    ELSE IF frame.event = "speech_ready"
         THEN SpeechReady(a, rs, frame.payload)
         ELSE AR(a, rs, <<>>)

\* ---- the response thread: AIProcessor._generate_response ----
\* the thread leaves the try block for the finally block; its locals are dead
RespLeave(rs, t) == [rs EXCEPT ![t] = [RespThreadInit EXCEPT !.pc = "finally"]]

\* what the delta of a chunk carries (lines 245-262): content only, audio
\* with its transcript and data, or both
ChunkKinds == {"text", "audio", "both"}

\* lines 216-224: a chunk of kind k arrives; the first one carries the id
RespChunk(a, rs, t, k) ==
    LET first == rs[t].chunk_count = 0
    IN  AR(IF first THEN [a EXCEPT !.current_request_id = t] ELSE a,
           [rs EXCEPT ![t].chunk_count = @ + 1,
                      ![t].chunk = k,
                      ![t].request_id = IF first THEN t ELSE @,
                      ![t].pc = "check1"], <<>>)

\* whether a per-chunk check sees the request marked or generation stopped
Marked(a, me) == me.request_id # 0 /\ me.request_id \in a.completed_request_ids

Stopped(a, c) == ~a.is_generating \/ c.cancelled

\* lines 226-260: the checks at the start of a chunk, then its text and
\* transcript
RespCheck1(a, rs, t, c) ==
    LET me == rs[t]
    IN  IF Marked(a, me)
        THEN AR(a, [rs EXCEPT ![t].interrupted = TRUE, ![t].pc = "finish"], <<>>)
        ELSE IF Stopped(a, c)
             THEN AR([a EXCEPT !.completed_request_ids =
                                  IF me.request_id # 0 THEN @ \cup {me.request_id} ELSE @],
                     [rs EXCEPT ![t].interrupted = TRUE, ![t].pc = "finish"], <<>>)
             ELSE IF me.chunk = "text"
                  THEN AR(a, [rs EXCEPT ![t].ai_text = TRUE, ![t].pc = "next"], <<>>)
                  ELSE AR(a, [rs EXCEPT ![t].ai_text = @ \/ me.chunk = "both",
                                        ![t].current_transcript = TRUE,
                                        ![t].pc = "check2"], <<>>)

\* lines 262-271: the checks just before the audio is forwarded
RespCheck2(a, rs, t, c) ==
    IF Marked(a, rs[t]) \/ Stopped(a, c)
    THEN AR(a, [rs EXCEPT ![t].pc = "finish"], <<>>)
    ELSE AR(a, [rs EXCEPT ![t].pc = "forward"], <<>>)

\* lines 273-294: the audio of the chunk is sent to the next processor
RespForward(a, rs, t) ==
    AR(a, [rs EXCEPT ![t].pc = "next"],
       <<Frame(SYSTEM, "play_audio", None, [turn |-> t, no |-> rs[t].chunk_count])>>)

\* a history that takes the raw text first
RespFinishTextFirst(a, rs, t) ==
    LET me == rs[t]
        a1 == [a EXCEPT !.completed_request_ids =
                           IF me.request_id # 0 THEN @ \cup {me.request_id} ELSE @]
        a2 == IF me.interrupted THEN a1
              ELSE IF me.ai_text
              THEN [a1 EXCEPT !.messages = Append(@, Message("assistant", t, "ai_text"))]
              ELSE IF me.current_transcript
              THEN [a1 EXCEPT
                      !.messages = Append(@, Message("assistant", t, "current_transcript")),
                      !.full_transcript = Append(@, t)]
              ELSE a1
    IN  AR(a2, RespLeave(rs, t), <<>>)

\* lines 296-326: the request marked completed and the history appended
RespFinish(a, rs, t) ==
    LET me == rs[t]
        a1 == [a EXCEPT !.completed_request_ids =
                           IF me.request_id # 0 THEN @ \cup {me.request_id} ELSE @]
        a2 == IF me.interrupted THEN a1
              ELSE IF me.current_transcript
              THEN [a1 EXCEPT
                      !.messages = Append(@, Message("assistant", t, "current_transcript")),
                      !.full_transcript = Append(@, t)]
              ELSE IF me.ai_text
              THEN [a1 EXCEPT !.messages = Append(@, Message("assistant", t, "ai_text"))]
              ELSE a1
    IN  AR(a2, RespLeave(rs, t), <<>>)

\* a finally block that leaves is_generating as it finds it
RespFinallyKeepsFlag(a, rs, t) ==
    AR([a EXCEPT !.current_request_id = 0, !.response_thread = 0],
       [rs EXCEPT ![t].pc = "done"], <<>>)

\* lines 342-348: the state reset in the finally block
RespFinally(a, rs, t) ==
    AR([a EXCEPT !.is_generating = FALSE,
                 !.current_request_id = 0,
                 !.response_thread = 0],
       [rs EXCEPT ![t].pc = "done"], <<>>)

\* lines 350-355: set(list(completed_request_ids)[-50:]) keeps the last
\* COMPLETED_KEPT ids in the iteration order of the set, which is the order
\* of the hashes of the id strings and not the order of insertion: any
\* COMPLETED_KEPT of them may be the ones kept
Prunings(a) ==
    IF Cardinality(a.completed_request_ids) + a.completed_earlier > COMPLETED_OVER
    THEN {[a EXCEPT !.completed_request_ids = kept,
                    !.completed_earlier = COMPLETED_KEPT - Cardinality(kept)] :
              kept \in {k \in SUBSET a.completed_request_ids :
                           /\ Cardinality(k) <= COMPLETED_KEPT
                           /\ COMPLETED_KEPT - Cardinality(k) <= a.completed_earlier}}
    ELSE {a}

\* ---- the AIProcessor as run by the capture stage, its response threads
\* ---- and the owner of the pipeline ----
UserInit == [collecting |-> FALSE, utterances |-> 0]

AIObsInit ==
    [ interrupts |-> 0,                        \* user_interrupt frames handled
      resets |-> 0,                            \* resets of the pipeline
      \* of each turn, until its thread is over:
      born |-> [t \in TurnIds |-> 0],          \* ... handled when turn t began
      session |-> [t \in TurnIds |-> 0],       \* session_id when t's request opened
      detected |-> [t \in TurnIds |-> "none"], \* the check that ended t's loop
      outcome |-> [t \in TurnIds |-> "none"],  \* how turn t ended
      appended |-> [t \in TurnIds |-> FALSE],  \* history appended for turn t
      had |-> [t \in TurnIds |-> "none"],      \* what t had accumulated at its end
      failed |-> FALSE,          \* a response thread was ended by an exception
      restarted |-> FALSE,       \* ... and a response was started after it ended
      open |-> 0,                \* ai_response_started sent upstream, less
                                 \* the ai_response_ended sent upstream
      data |-> 0,                \* DATA audio_data frames taken from the queue
      writers |-> {},            \* the threads that have appended to messages:
                                 \* capture (Ears' loop, which runs process_frame
                                 \* for the SYSTEM frames it sends), loop (the
                                 \* AIProcessor's own loop), response
      marked |-> {},             \* the request ids of TurnIds ever added to
                                 \* completed_request_ids
      late |-> [t \in TurnIds |-> FALSE],  \* t's chunk in hand arrived after
                                 \* its request id was marked
      stale_audio |-> FALSE,     \* audio forwarded for a superseded turn
      stale_effect |-> FALSE ]   \* a side effect under another session_id

ApplyAI(r) == ai' = r.ai /\ resp' = r.rs

\* the record once the request ids a has marked are noted
ObsMarked(o, a) == [o EXCEPT !.marked = @ \cup (a.completed_request_ids \cap TurnIds)]

NotGen == <<earsVars, recVars, mouthVars, pipeVars, lifeVars>>

\* the capture stage's processing loop is running
Capturing == ctx.is_running /\ ~ctx.cancelled

\* what a request for a response leaves in the record: ai_response_started
\* is sent upstream (lines 95-98, 138-141) whether or not a thread is started
ObsRequest(o, a, rs) ==
    LET o1 == [o EXCEPT !.open = @ + 1]
    IN  IF a.is_generating THEN o1
        ELSE [o1 EXCEPT
                !.born[FreshTurn(rs)] = o.interrupts,
                !.restarted = @ \/ (o.failed /\ \A t \in TurnIds : ~Running(rs, t))]

\* the user starts to speak: Ears sends user_interrupt with clear_pipeline
GenUserInterrupt ==
    /\ Capturing
    /\ ~user.collecting
    /\ user.utterances < MaxUtterances
    /\ ApplyAI(AIProcessSystem(ai, resp,
                   Frame(SYSTEM, "user_interrupt", "clear_pipeline", None)))
    /\ user' = [collecting |-> TRUE, utterances |-> user.utterances + 1]
    /\ ai_obs' = ObsMarked([ai_obs EXCEPT !.interrupts = @ + 1], ai')
    /\ UNCHANGED <<ctx, NotGen>>

\* the utterance ends: Ears sends speech_ready with the recording
GenSpeechReady ==
    /\ Capturing
    /\ user.collecting
    /\ ai.is_generating \/ FreshTurn(resp) # 0
    /\ ApplyAI(AIProcessSystem(ai, resp,
                   Frame(SYSTEM, "speech_ready", None, user.utterances)))
    /\ user' = [user EXCEPT !.collecting = FALSE]
    /\ ai_obs' = [ObsRequest(ai_obs, ai, resp) EXCEPT !.writers = @ \cup {"capture"}]
    /\ UNCHANGED <<ctx, NotGen>>

\* the AIProcessor's loop takes a DATA audio_data frame from its queue
\* (lines 105-146)
GenAudioData ==
    /\ Capturing
    /\ ai_obs.data < MaxData
    /\ ai.is_generating \/ FreshTurn(resp) # 0
    /\ ApplyAI(SpeechReady(ai, resp, 0))
    /\ ai_obs' = [ObsRequest(ai_obs, ai, resp) EXCEPT !.data = @ + 1,
                                                      !.writers = @ \cup {"loop"}]
    /\ UNCHANGED <<ctx, user, NotGen>>

\* lines 195-212: the request is created, or its creation fails
GenCreate(t) ==
    /\ resp[t].pc = "create"
    /\ \E ok \in BOOLEAN :
         IF ok
         THEN /\ resp' = [resp EXCEPT ![t].pc = "next"]
              /\ ai_obs' = [ai_obs EXCEPT !.session[t] = ctx.session_id]
         ELSE /\ resp' = RespLeave(resp, t)
              /\ ai_obs' = [ai_obs EXCEPT !.outcome[t] = "error", !.failed = TRUE,
                                          !.open = @ - 1]
    /\ UNCHANGED <<ai, ctx, user, NotGen>>

\* line 216: the stream yields a chunk
GenChunk(t) ==
    /\ resp[t].pc = "next"
    /\ resp[t].chunk_count < MaxStream
    /\ \E k \in ChunkKinds : ApplyAI(RespChunk(ai, resp, t, k))
    /\ ai_obs' = [ai_obs EXCEPT !.late[t] = resp[t].request_id \in ai_obs.marked]
    /\ UNCHANGED <<ctx, user, NotGen>>

\* line 216: the stream of a request whose id is marked yields one more
\* chunk, one the network had buffered
GenLateChunk(t) ==
    /\ resp[t].pc = "next"
    /\ resp[t].request_id \in ai_obs.marked
    /\ resp[t].chunk_count < MaxStream + MaxLateChunks
    /\ \E k \in ChunkKinds : ApplyAI(RespChunk(ai, resp, t, k))
    /\ ai_obs' = [ai_obs EXCEPT !.late[t] = TRUE]
    /\ UNCHANGED <<ctx, user, NotGen>>

\* line 216: the stream is exhausted
GenStreamEnd(t) ==
    /\ resp[t].pc = "next"
    /\ resp' = [resp EXCEPT ![t].pc = "finish"]
    /\ UNCHANGED <<ai, ctx, user, ai_obs, NotGen>>

\* line 216: reading the stream raises (lines 331-340)
GenStreamError(t) ==
    /\ resp[t].pc = "next"
    /\ resp' = RespLeave(resp, t)
    /\ ai_obs' = [ai_obs EXCEPT !.outcome[t] = "error", !.failed = TRUE,
                                !.open = @ - 1]
    /\ UNCHANGED <<ai, ctx, user, NotGen>>

\* a side effect of turn t is made under a session_id that is not the one
\* its request was opened under
OtherSession(t) == ctx.session_id # ai_obs.session[t]

GenCheck1(t) ==
    /\ resp[t].pc = "check1"
    /\ ApplyAI(RespCheck1(ai, resp, t, ctx))
    /\ ai_obs' = IF resp'[t].pc = "finish"
                 THEN ObsMarked([ai_obs EXCEPT !.detected[t] = "check1"], ai')
                 ELSE [ai_obs EXCEPT !.stale_effect = @ \/ OtherSession(t)]
    /\ UNCHANGED <<ctx, user, NotGen>>

GenCheck2(t) ==
    /\ resp[t].pc = "check2"
    /\ ApplyAI(RespCheck2(ai, resp, t, ctx))
    /\ ai_obs' = IF resp'[t].pc = "finish"
                 THEN [ai_obs EXCEPT !.detected[t] = "check2"]
                 ELSE ai_obs
    /\ UNCHANGED <<ctx, user, NotGen>>

GenForward(t) ==
    /\ resp[t].pc = "forward"
    /\ ApplyAI(RespForward(ai, resp, t))
    /\ ai_obs' = [ai_obs EXCEPT
            !.stale_audio = @ \/ ai_obs.interrupts > ai_obs.born[t],
            !.stale_effect = @ \/ OtherSession(t)]
    /\ UNCHANGED <<ctx, user, NotGen>>

\* the texts a response thread holds: ai_text and current_transcript
Accumulated(me) ==
    IF me.current_transcript
    THEN (IF me.ai_text THEN "both" ELSE "current_transcript")
    ELSE (IF me.ai_text THEN "ai_text" ELSE "neither")

GenFinish(t) ==
    /\ resp[t].pc = "finish"
    /\ ApplyAI(RespFinish(ai, resp, t))
    /\ LET app == Len(ai'.messages) > Len(ai.messages)
       IN  ai_obs' = [ObsMarked(ai_obs, ai') EXCEPT
               !.outcome[t] = IF resp[t].interrupted THEN "interrupted" ELSE "completed",
               !.appended[t] = app,
               !.had[t] = Accumulated(resp[t]),
               !.open = @ - 1,
               !.writers = IF app THEN @ \cup {"response"} ELSE @,
               !.stale_effect = @ \/ (app /\ OtherSession(t))]
    /\ UNCHANGED <<ctx, user, NotGen>>

GenFinally(t) ==
    /\ resp[t].pc = "finally"
    /\ LET r == RespFinally(ai, resp, t)
       IN  /\ resp' = r.rs
           /\ ai' \in Prunings(r.ai)
    /\ ai_obs' = [ai_obs EXCEPT !.born[t] = 0, !.session[t] = 0, !.detected[t] = "none",
                                !.outcome[t] = "none", !.appended[t] = FALSE,
                                !.had[t] = "none", !.late[t] = FALSE]
    /\ UNCHANGED <<ctx, user, NotGen>>

ResponseThread ==
    \E t \in TurnIds :
        \/ GenCreate(t)
        \/ GenChunk(t)
        \/ GenStreamEnd(t)
        \/ GenStreamError(t)
        \/ GenCheck1(t)
        \/ GenCheck2(t)
        \/ GenForward(t)
        \/ GenFinish(t)
        \/ GenFinally(t)

\* ConversationPipeline.start
PipelineStart ==
    /\ ~ctx.is_running
    /\ ctx' = [ctx EXCEPT !.is_running = TRUE, !.cancelled = FALSE]
    /\ UNCHANGED <<ai, resp, user, ai_obs, NotGen>>

\* ConversationPipeline.reset: stop (when running), then a new session
PipelineReset ==
    /\ ai_obs.resets < MaxResets
    /\ IF ctx.is_running
       THEN /\ ctx' = [session_id |-> ctx.session_id + 1, cancelled |-> TRUE,
                       is_running |-> FALSE]
            /\ ai' = [ai EXCEPT !.input_queue = <<>>]
       ELSE /\ ctx' = [ctx EXCEPT !.session_id = @ + 1]
            /\ ai' = ai
    /\ ai_obs' = [ai_obs EXCEPT !.resets = @ + 1]
    /\ UNCHANGED <<resp, user, NotGen>>

\* ------------------------------------------------------------------------
\* The frame bus: ProcessorBase (core_pipeline.py) linking Ears, AIProcessor
\* and Mouth
\* ------------------------------------------------------------------------
\* a send that queues every frame, SYSTEM frames too
DirectNever(frame) == FALSE

\* send_downstream, lines 148-151: whether the frame is handled at once, in
\* the sender's thread, by the next processor's process_frame
Direct(frame) == frame.type = SYSTEM

\* the stages past the capture stage; stops counts the stop and clear
\* commands that have reached Mouth
PS(a, rs, m, ws, stops) == [ai |-> a, rs |-> rs, m |-> m, ws |-> ws, stops |-> stops]

\* Mouth.process_frame at time t
MouthProcessFrame(p, frame, t) ==
    IF frame.type = SYSTEM
    THEN IF frame.command = "stop"
         THEN LET r == StopStream(StopImmediatelyFlags(p.m), p.ws)
              IN  PS(p.ai, p.rs, r.m, r.ws, p.stops + 1)
         ELSE IF frame.command = "pause"
         THEN PS(p.ai, p.rs, Pause(p.m, t), p.ws, p.stops)
         ELSE IF frame.command = "clear_pipeline"
         THEN LET r == StopStream(StopImmediatelyFlags(p.m), p.ws)
              IN  PS(p.ai, p.rs, ClearAfterStop(r.m), r.ws, p.stops + 1)
         ELSE IF frame.event = "play_audio"
         THEN LET r == AddAudioData(p.m, p.ws, frame.payload, t)
              IN  PS(p.ai, p.rs, r.m, r.ws, p.stops)
         ELSE p
    ELSE LET r == AddAudioData(p.m, p.ws, frame.payload, t)
         IN  PS(p.ai, p.rs, r.m, r.ws, p.stops)

\* AIProcessor.send_downstream(frame)
SendToMouth(p, frame, t) ==
    IF Direct(frame)
    THEN MouthProcessFrame(p, frame, t)
    ELSE [p EXCEPT !.m.input_queue = Append(@, frame)]

RECURSIVE SendAllToMouth(_, _, _)
SendAllToMouth(p, frames, t) ==
    IF frames = <<>> THEN p
    ELSE SendAllToMouth(SendToMouth(p, Head(frames), t), Tail(frames), t)

\* AIProcessor.process_frame, with the frames it sends downstream delivered
AIProcessFrame(p, frame, t) ==
    LET r == IF frame.type = SYSTEM
             THEN AIProcessSystem(p.ai, p.rs, frame)
             ELSE SpeechReady(p.ai, p.rs, frame.payload)
    IN  SendAllToMouth(PS(r.ai, r.rs, p.m, p.ws, p.stops), r.out, t)

\* Ears.send_downstream(frame)
SendToAI(p, frame, t) ==
    IF Direct(frame)
    THEN AIProcessFrame(p, frame, t)
    ELSE [p EXCEPT !.ai.input_queue = Append(@, frame)]

RECURSIVE SendAllToAI(_, _, _)
SendAllToAI(p, frames, t) ==
    IF frames = <<>> THEN p
    ELSE SendAllToAI(SendToAI(p, Head(frames), t), Tail(frames), t)

\* the threads start_stream and _start_response_thread would start exist
CanStart(p) == FreshWorker(p.ws) # 0 /\ FreshTurn(p.rs) # 0

PipeObsInit ==
    [ enqueued |-> 0,      \* DATA frames queued by enqueue_frame, numbered
      processed |-> {},    \* ... those a stage's loop has taken and processed
      at_collect |-> {},   \* ... those queued when Collecting was last entered
      waiting |-> FALSE,   \* Collecting entered, no stop has reached Mouth yet
      stops |-> 0 ]        \* stop and clear commands that have reached Mouth

DataIds(q) == {q[i].payload : i \in {j \in 1..Len(q) : q[j].type = DATA}}

Here == PS(ai, resp, mouth, workers, pipe_obs.stops)

ApplyPipe(p) ==
    /\ ai' = p.ai
    /\ resp' = p.rs
    /\ mouth' = p.m
    /\ workers' = p.ws

NotPipe == <<scen, recVars, ctl, now, mouth_obs, ctx, user, ai_obs, lifeVars>>

\* enqueue_frame(DATA audio_data) on the AIProcessor
PipeEnqueueAI ==
    /\ pipe_obs.enqueued < MaxPipeData
    /\ ai' = [ai EXCEPT !.input_queue =
                 Append(@, Frame(DATA, None, None, pipe_obs.enqueued + 1))]
    /\ pipe_obs' = [pipe_obs EXCEPT !.enqueued = @ + 1]
    /\ UNCHANGED <<ears, ears_obs, resp, mouth, workers, NotPipe>>

\* enqueue_frame(DATA audio_data) on Mouth
PipeEnqueueMouth ==
    /\ pipe_obs.enqueued < MaxPipeData
    /\ mouth' = [mouth EXCEPT !.input_queue =
                    Append(@, Frame(DATA, None, None, pipe_obs.enqueued + 1))]
    /\ pipe_obs' = [pipe_obs EXCEPT !.enqueued = @ + 1]
    /\ UNCHANGED <<ears, ears_obs, ai, resp, workers, NotPipe>>

\* Ears' loop takes a microphone frame: process_frame, with the frames it
\* sends downstream delivered
PipeMicFrame ==
    /\ Capturing
    /\ ears_obs.frame_no < MaxPipeFrames
    /\ CanStart(Here)
    /\ \E is_speech \in BOOLEAN :
         /\ FeedFrame(is_speech, FALSE)
         /\ LET p == SendAllToAI(Here, ears_obs'.sent, now)
                entered == ~ears.is_collecting_speech /\ ears'.is_collecting_speech
            IN  /\ ApplyPipe(p)
                /\ pipe_obs' = [pipe_obs EXCEPT
                       !.stops = p.stops,
                       !.at_collect =
                           IF entered
                           THEN DataIds(ai.input_queue) \cup DataIds(mouth.input_queue)
                           ELSE @,
                       !.waiting = IF entered THEN p.stops = pipe_obs.stops ELSE @]
    /\ UNCHANGED NotPipe

\* the AIProcessor's loop takes the frame at the head of its queue
PipeAILoop ==
    /\ Capturing
    /\ ai.input_queue # <<>>
    /\ CanStart(Here)
    /\ LET frame == Head(ai.input_queue)
           p == AIProcessFrame([Here EXCEPT !.ai.input_queue = Tail(@)], frame, now)
       IN  /\ ApplyPipe(p)
           /\ pipe_obs' = [pipe_obs EXCEPT
                  !.stops = p.stops,
                  !.processed = IF frame.type = DATA THEN @ \cup {frame.payload} ELSE @,
                  !.waiting = @ /\ p.stops = pipe_obs.stops]
    /\ UNCHANGED <<ears, ears_obs, NotPipe>>

\* Mouth's loop takes the frame at the head of its queue
PipeMouthLoop ==
    /\ Capturing
    /\ mouth.input_queue # <<>>
    /\ CanStart(Here)
    /\ LET frame == Head(mouth.input_queue)
           p == MouthProcessFrame([Here EXCEPT !.m.input_queue = Tail(@)], frame, now)
       IN  /\ ApplyPipe(p)
           /\ pipe_obs' = [pipe_obs EXCEPT
                  !.stops = p.stops,
                  !.processed = IF frame.type = DATA THEN @ \cup {frame.payload} ELSE @,
                  !.waiting = @ /\ p.stops = pipe_obs.stops]
    /\ UNCHANGED <<ears, ears_obs, NotPipe>>

\* ------------------------------------------------------------------------
\* The life of the pipeline: ProcessorBase.start, stop and _process_loop,
\* ConversationPipeline.start and stop (core_pipeline.py), and the microphone
\* callback of Ears (ears.py)
\* ------------------------------------------------------------------------
\* the processors of the pipeline in the order they were added: Ears,
\* AIProcessor, Mouth
StageIds == 1..3

\* the threads that run process_frame: the loop thread of each processor,
\* named after it, and the response thread of the AIProcessor
Responder == 4
ThreadIds == StageIds \cup {Responder}

\* a queued frame: its number and whether process_frame raises on it
NoFrame == [no |-> 0, raises |-> FALSE]

\* ProcessorBase.__init__, with the position and the local of the loop thread
StageInit ==
    [ is_running |-> FALSE,
      input_queue |-> <<>>,
      pc |-> "none",           \* _process_loop: none, test, get, process, over
      frame |-> NoFrame,       \* the frame the loop has taken
      handled |-> {},          \* frames process_frame returned from
      failed |-> {} ]          \* frames process_frame raised on

StagesInit == [k \in StageIds |-> StageInit]

ThreadAlive(s) == s.pc \notin {"none", "over"}

\* ProcessorBase.start
StageStart(s) ==
    IF s.is_running THEN s
    ELSE [s EXCEPT !.is_running = TRUE, !.pc = "test"]

\* ProcessorBase.stop; the join returns when the thread is over or after 1 s
StageStop(s) ==
    IF ~s.is_running THEN s
    ELSE [s EXCEPT !.is_running = FALSE, !.input_queue = <<>>]

\* _process_loop, line 196: the loop test
LoopTest(s, c) ==
    IF s.is_running /\ ~c.cancelled
    THEN [s EXCEPT !.pc = "get"]
    ELSE [s EXCEPT !.pc = "over"]

\* lines 197-201: input_queue.get(timeout=0.1)
LoopGet(s) ==
    IF s.input_queue = <<>>
    THEN [s EXCEPT !.pc = "test"]
    ELSE [s EXCEPT !.pc = "process",
                   !.frame = Head(s.input_queue),
                   !.input_queue = Tail(@)]

\* a loop that an exception of process_frame ends
LoopProcessUncaught(s) ==
    IF s.frame.raises
    THEN [s EXCEPT !.pc = "over", !.frame = NoFrame, !.failed = @ \cup {s.frame.no}]
    ELSE [s EXCEPT !.pc = "test", !.frame = NoFrame, !.handled = @ \cup {s.frame.no}]

\* lines 203-209: process_frame returns, or raises and is caught
LoopProcess(s) ==
    IF s.frame.raises
    THEN [s EXCEPT !.pc = "test", !.frame = NoFrame, !.failed = @ \cup {s.frame.no}]
    ELSE [s EXCEPT !.pc = "test", !.frame = NoFrame, !.handled = @ \cup {s.frame.no}]

\* ConversationPipeline.__init__ and Ears.__init__
PipelineInit ==
    [ pc |-> "idle",           \* stop(): idle, or stopping the processor `at`
      at |-> 0,
      mic_stream |-> FALSE,    \* Ears.stream is open
      callback |-> "idle",     \* _audio_callback: idle, or put (is_running seen)
      enqueued |-> 0,          \* frames the callback has queued
      cleared |-> {},          \* frames a stop has discarded
      start_calls |-> 0,       \* calls of start()
      start_commands |-> 0,    \* start commands Ears.process_frame was given
      \* the process_frame calls each thread is inside through send_downstream
      \* or send_upstream: the processors called, the innermost last
      calls |-> [h \in ThreadIds |-> <<>>],
      responder |-> "none",    \* the response thread: none, running, over
      stop_pc |-> "none",      \* stop_mic_stream: none, or close (the utterance
                               \* finalized, the stream about to be closed)
      stop_commands |-> 0,     \* stop commands Ears.process_frame was given
      leftover |-> 0 ]         \* frames queued when the stream was closed

NotLife == <<ears_obs, scen, recVars, mouthVars, ai, resp, user, ai_obs, pipeVars, ui>>

QueuedNos(q) == {q[i].no : i \in 1..Len(q)}

\* ConversationPipeline.start; when it starts the processors, the threads of
\* an earlier run are over
LifeStart ==
    /\ pl.pc = "idle"
    /\ pl.start_calls < MaxStarts
    /\ IF ctx.is_running
       THEN /\ pl' = [pl EXCEPT !.start_calls = @ + 1]
            /\ UNCHANGED <<ctx, stages, ears>>
       ELSE /\ \A k \in StageIds : ~ThreadAlive(stages[k])
            /\ ctx' = [ctx EXCEPT !.is_running = TRUE, !.cancelled = FALSE]
            /\ stages' = [k \in StageIds |-> StageStart(stages[k])]
            \* Ears.process_frame(start): start_mic_stream
            /\ ears' = IF pl.mic_stream THEN ears ELSE EarsInit
            /\ pl' = [pl EXCEPT !.start_calls = @ + 1,
                                !.start_commands = @ + 1,
                                !.mic_stream = TRUE]
    /\ UNCHANGED <<vc, sm, NotLife>>

\* ConversationPipeline.stop, lines 297-302: the cancellation token set
LifeStopBegin ==
    /\ pl.pc = "idle"
    /\ ctx.is_running
    /\ ctx' = [ctx EXCEPT !.cancelled = TRUE]
    /\ pl' = [pl EXCEPT !.pc = "stopping", !.at = 3]
    /\ UNCHANGED <<stages, ears, vc, sm, NotLife>>

\* lines 305-306: the next processor, in reverse order, is stopped
LifeStopStage ==
    /\ pl.pc = "stopping"
    /\ pl.at >= 1
    /\ stages' = [stages EXCEPT ![pl.at] = StageStop(@)]
    /\ pl' = [pl EXCEPT !.at = @ - 1,
                        !.cleared = @ \cup (QueuedNos(stages[pl.at].input_queue)
                                             \ QueuedNos(stages'[pl.at].input_queue))]
    /\ UNCHANGED <<ctx, ears, vc, sm, NotLife>>

\* lines 308-310: stop returns
LifeStopEnd ==
    /\ pl.pc = "stopping"
    /\ pl.at = 0
    /\ ctx' = [ctx EXCEPT !.is_running = FALSE]
    /\ pl' = [pl EXCEPT !.pc = "idle"]
    /\ UNCHANGED <<stages, ears, vc, sm, NotLife>>

\* Ears._audio_callback, line 106: is_running is read
MicCheck ==
    /\ pl.mic_stream
    /\ pl.callback = "idle"
    /\ pl.enqueued < MaxLifeFrames
    /\ pl' = [pl EXCEPT !.callback = IF stages[1].is_running THEN "put" ELSE "idle"]
    /\ UNCHANGED <<ctx, stages, ears, vc, sm, NotLife>>

\* lines 107-110: the frame is queued
MicPut ==
    /\ pl.callback = "put"
    /\ \E raises \in BOOLEAN :
         stages' = [stages EXCEPT ![1].input_queue =
                       Append(@, [no |-> pl.enqueued + 1, raises |-> raises])]
    /\ pl' = [pl EXCEPT !.callback = "idle", !.enqueued = @ + 1]
    /\ UNCHANGED <<ctx, ears, vc, sm, NotLife>>

\* stop_mic_stream without lines 309-311
StopMicStreamAbandon(e, stream) ==
    [ears |-> e, out |-> <<>>, close |-> stream]

\* Ears.stop_mic_stream, lines 304-311: nothing without a stream; otherwise
\* the utterance in progress is ended and the stream is to be closed
StopMicStream(e, stream) ==
    IF ~stream THEN [ears |-> e, out |-> <<>>, close |-> FALSE]
    ELSE LET r == IF e.is_collecting_speech THEN EndSpeechCollection(e)
                  ELSE [ears |-> e, out |-> <<>>]
         IN  [ears |-> r.ears, out |-> r.out, close |-> TRUE]

\* Ears.process_frame for a SYSTEM frame with command stop (lines 115-118),
\* up to the end of the utterance; stream_lock is held
EarsStopCommand ==
    /\ pl.stop_pc = "none"
    /\ pl.stop_commands < MaxStops
    /\ LET r == StopMicStream(ears, pl.mic_stream)
       IN  /\ ears' = r.ears
           /\ ears_obs' = [ears_obs EXCEPT !.sent = r.out,
                                           !.was_collecting = ears.is_collecting_speech]
           /\ pl' = [pl EXCEPT !.stop_commands = @ + 1,
                               !.stop_pc = IF r.close THEN "close" ELSE "none"]
    /\ UNCHANGED <<scen, recVars, mouthVars, genVars, pipeVars, stages, vc, sm, ui>>

\* lines 313-319: the stream is stopped and closed; frames that the callback
\* queued before may still wait in the queue of Ears
EarsStopClose ==
    /\ pl.stop_pc = "close"
    /\ \E n \in 0..MaxLeftover :
         pl' = [pl EXCEPT !.stop_pc = "none", !.mic_stream = FALSE, !.leftover = n]
    /\ UNCHANGED <<ctx, stages, ears, vc, sm, NotLife>>

\* the worker of Ears handles a microphone frame: one that the open stream
\* delivered, or one that was queued when the stream was closed
MicData ==
    /\ ThreadAlive(stages[1])
    /\ pl.mic_stream \/ pl.leftover > 0
    /\ ears_obs.frame_no < MaxLiveFrames
    /\ \E is_speech \in BOOLEAN : FeedFrame(is_speech, FALSE)
    /\ pl' = [pl EXCEPT !.leftover = IF pl.mic_stream THEN @ ELSE @ - 1]
    /\ UNCHANGED <<scen, recVars, mouthVars, genVars, pipeVars, stages, vc, sm, ui>>

\* the start command waits for stream_lock (ears.py, line 70)
MicStart == pl.stop_pc = "none" /\ LifeStart

ProcessLoopTest(k) ==
    /\ stages[k].pc = "test"
    /\ stages' = [stages EXCEPT ![k] = LoopTest(@, ctx)]
    /\ UNCHANGED <<ctx, pl, ears, vc, sm, NotLife>>

ProcessLoopGet(k) ==
    /\ stages[k].pc = "get"
    /\ stages' = [stages EXCEPT ![k] = LoopGet(@)]
    /\ UNCHANGED <<ctx, pl, ears, vc, sm, NotLife>>

ProcessLoopFrame(k) ==
    /\ stages[k].pc = "process"
    /\ pl.calls[k] = <<>>
    /\ stages' = [stages EXCEPT ![k] = LoopProcess(@)]
    /\ UNCHANGED <<ctx, pl, ears, vc, sm, NotLife>>

\* thread h is inside process_frame of processor k
Inside(h, k) ==
    \/ h = k /\ stages[k].pc = "process"
    \/ \E i \in 1..Len(pl.calls[h]) : pl.calls[h][i] = k

\* the processor whose code thread h is running; 0 when it runs none that
\* sends a frame
Executing(h) ==
    IF pl.calls[h] # <<>> THEN pl.calls[h][Len(pl.calls[h])]
    ELSE IF h \in StageIds THEN (IF stages[h].pc = "process" THEN h ELSE 0)
    ELSE IF pl.responder = "running" THEN 2 ELSE 0

\* the sends of SYSTEM frames in the code, as <<sender, receiver>>: Ears
\* downstream (ears.py 157-166, 213), the AIProcessor downstream
\* (processors.py 61, 173, 288) and upstream (processors.py 95, 138, 323, 337)
Sends == {<<1, 2>>, <<2, 3>>, <<2, 1>>}

\* send_downstream and send_upstream, lines 148-149 and 157-158: thread h
\* calls process_frame of the receiver; a speech_ready from Ears makes the
\* AIProcessor start its response thread
BusSend(h) ==
    /\ \E to \in StageIds :
         /\ <<Executing(h), to>> \in Sends
         /\ ~Inside(h, to)
         /\ \E speech_ready \in BOOLEAN :
              pl' = [pl EXCEPT !.calls[h] = Append(@, to),
                               !.responder =
                                   IF h = 1 /\ to = 2 /\ speech_ready /\ @ = "none"
                                   THEN "running" ELSE @]
    /\ UNCHANGED <<ctx, stages, ears, vc, sm, NotLife>>

\* the process_frame that thread h called last returns
BusReturn(h) ==
    /\ pl.calls[h] # <<>>
    /\ pl' = [pl EXCEPT !.calls[h] = SubSeq(@, 1, Len(@) - 1)]
    /\ UNCHANGED <<ctx, stages, ears, vc, sm, NotLife>>

\* _generate_response returns
ResponderEnd ==
    /\ pl.responder = "running"
    /\ pl.calls[Responder] = <<>>
    /\ pl' = [pl EXCEPT !.responder = "over"]
    /\ UNCHANGED <<ctx, stages, ears, vc, sm, NotLife>>

Bus == ResponderEnd \/ \E h \in ThreadIds : BusSend(h) \/ BusReturn(h)

\* a loop thread with nothing queued for it
ProcessLoopIdle(k) == ProcessLoopTest(k) \/ ProcessLoopGet(k)

ProcessLoop == \E k \in StageIds : ProcessLoopIdle(k) \/ ProcessLoopFrame(k)

\* ------------------------------------------------------------------------
\* The loops of the other variants: QwenVoiceChat (voice_chat.py) and the
\* StateManager (Agent.py)
\* ------------------------------------------------------------------------
VoiceChatInit ==
    [ phase |-> "new",                  \* new, run (start called), closed
      is_running |-> FALSE,
      session_end_event |-> FALSE,
      speech_detected_event |-> FALSE,
      rec_detected |-> FALSE,           \* audio_recorder.speech_detected_event
      rec_ended |-> FALSE,              \* audio_recorder.speech_ended_event
      mic_active |-> FALSE,
      spoken |-> 0,                     \* utterances the recorder has detected
      det |-> "none",   \* _continuous_speech_detection: test, wait, hold, over
      usr |-> "none",   \* _user_listening_thread: test, wait_detected,
                        \* wait_ended, over
      ai_ready_event |-> FALSE,
      ai_done_event |-> TRUE,           \* _reset_state, lines 92-93
      current_session_id |-> 0,
      ai |-> "none",    \* _ai_response_thread: test, wait, turn, finally, over
      turn_session |-> 0 ]  \* its local current_session_id, kept after the turn

StateManagerInit ==
    [ running |-> FALSE,
      queue |-> 0,      \* events in _event_queue
      pc |-> "none" ]   \* _process_events: none, test, get, over

NotVariants == <<ears, ctx, stages, pl, NotLife>>

\* start_conversation, lines 652-675: the state reset and the threads started
VcStart ==
    /\ vc.phase = "new"
    /\ vc' = [vc EXCEPT !.phase = "run", !.is_running = TRUE,
                        !.session_end_event = FALSE,
                        !.speech_detected_event = FALSE,
                        !.mic_active = TRUE,
                        !.det = "test", !.usr = "test", !.ai = "test"]
    /\ UNCHANGED <<sm, NotVariants>>

\* the stop request: close (lines 703-709), as is the finally block of
\* start_conversation (lines 685-701)
VcClose ==
    /\ vc.phase = "run"
    /\ vc' = [vc EXCEPT !.phase = "closed", !.is_running = FALSE,
                        !.session_end_event = TRUE, !.mic_active = FALSE]
    /\ UNCHANGED <<sm, NotVariants>>

\* the recorder's listening thread detects the start of an utterance
VcSpeech ==
    /\ vc.mic_active
    /\ vc.spoken < MaxSpeech
    /\ vc' = [vc EXCEPT !.rec_detected = TRUE, !.spoken = @ + 1]
    /\ UNCHANGED <<sm, NotVariants>>

\* ... and its end
VcSilence ==
    /\ vc.mic_active
    /\ vc.spoken > 0
    /\ ~vc.rec_ended
    /\ vc' = [vc EXCEPT !.rec_ended = TRUE]
    /\ UNCHANGED <<sm, NotVariants>>

VcLive(v) == v.is_running /\ ~v.session_end_event

\* _continuous_speech_detection, lines 148-169
VcDetection ==
    /\ \/ /\ vc.det = "test"
          /\ vc' = [vc EXCEPT !.det = IF VcLive(vc) THEN "wait" ELSE "over"]
       \/ /\ vc.det = "wait"      \* speech_detected_event.wait(0.05)
          /\ vc' = IF vc.rec_detected
                   THEN [vc EXCEPT !.speech_detected_event = TRUE, !.det = "hold"]
                   ELSE [vc EXCEPT !.det = "test"]
       \/ /\ vc.det = "hold"      \* lines 162-166
          /\ vc' = IF vc.speech_detected_event /\ vc.is_running
                   THEN vc
                   ELSE [vc EXCEPT !.rec_detected = FALSE, !.det = "test"]
    /\ UNCHANGED <<sm, NotVariants>>

\* _user_listening_thread, lines 175-242
VcUser ==
    /\ \/ /\ vc.usr = "test"
          /\ vc' = IF VcLive(vc)
                   THEN [vc EXCEPT !.rec_detected = FALSE, !.rec_ended = FALSE,
                                   !.usr = "wait_detected"]
                   ELSE [vc EXCEPT !.usr = "over"]
       \/ /\ vc.usr = "wait_detected"   \* line 195: speech_detected_event.wait()
          /\ vc.speech_detected_event
          /\ vc' = [vc EXCEPT !.speech_detected_event = FALSE,
                              !.usr = IF VcLive(vc) THEN "wait_ended" ELSE "test"]
       \/ /\ vc.usr = "wait_ended"      \* line 219: speech_ended_event.wait(180.0)
          /\ vc' = [vc EXCEPT !.usr = "test"]
    /\ UNCHANGED <<sm, NotVariants>>

\* the recorder's listening thread detects the start of one more utterance
VcSpeechAgain ==
    /\ vc.mic_active
    /\ vc.spoken >= MaxSpeech
    /\ vc.spoken < MaxSpeech + MaxMoreSpeech
    /\ vc' = [vc EXCEPT !.rec_detected = TRUE, !.spoken = @ + 1]
    /\ UNCHANGED <<sm, NotVariants>>

\* _user_listening_thread, lines 219-238, when the recording is long enough:
\* _process_user_audio appends the message, takes a new session id and sets
\* ai_ready_event (lines 327-345)
VcAccept ==
    /\ vc.usr = "wait_ended"
    /\ vc.rec_ended
    /\ vc' = [vc EXCEPT !.current_session_id = @ + 1,
                        !.ai_ready_event = TRUE,
                        !.ai_done_event = FALSE,
                        !.usr = "test"]
    /\ UNCHANGED <<sm, NotVariants>>

\* _ai_response_thread, lines 351-607
VcAi ==
    /\ \/ /\ vc.ai = "test"
          /\ vc' = [vc EXCEPT !.ai = IF VcLive(vc) THEN "wait" ELSE "over"]
       \/ /\ vc.ai = "wait"      \* lines 357-372: ai_ready_event.wait(0.1)
          /\ vc' = IF vc.ai_ready_event
                   THEN [vc EXCEPT !.ai = "turn",
                                   !.turn_session = vc.current_session_id]
                   ELSE [vc EXCEPT !.ai = "test"]
       \/ /\ vc.ai = "turn"      \* lines 374-590: the response, to its end
          /\ vc' = [vc EXCEPT !.ai = "finally"]
       \/ /\ vc.ai = "finally"   \* lines 592-607
          /\ vc' = [vc EXCEPT !.ai_ready_event = FALSE,
                              !.ai_done_event = TRUE,
                              !.ai = "test"]
    /\ UNCHANGED <<sm, NotVariants>>

\* StateManager.start
SmStart ==
    /\ ~sm.running
    /\ sm.pc = "none"
    /\ sm' = [sm EXCEPT !.running = TRUE, !.pc = "test"]
    /\ UNCHANGED <<vc, NotVariants>>

\* StateManager.post_event
SmPost ==
    /\ sm.running
    /\ sm.queue < MaxEvents
    /\ sm' = [sm EXCEPT !.queue = @ + 1]
    /\ UNCHANGED <<vc, NotVariants>>

\* StateManager.stop
SmStop ==
    /\ sm.running
    /\ sm' = [sm EXCEPT !.running = FALSE]
    /\ UNCHANGED <<vc, NotVariants>>

\* StateManager._process_events, lines 91-108
SmLoop ==
    /\ \/ /\ sm.pc = "test"
          /\ sm' = [sm EXCEPT !.pc = IF sm.running THEN "get" ELSE "over"]
       \/ /\ sm.pc = "get"        \* _event_queue.get(timeout=0.1)
          /\ sm' = [sm EXCEPT !.pc = "test",
                              !.queue = IF @ > 0 THEN @ - 1 ELSE @]
    /\ UNCHANGED <<vc, NotVariants>>

\* ------------------------------------------------------------------------
\* The turn-taking state and the observer callback: EventProcessor
\* (processors.py), StateManager._handle_event and Agent._on_state_changed
\* (Agent.py)
\* ------------------------------------------------------------------------
\* the events EventProcessor.process_frame tells apart
EpEvents ==
    {"speech_started", "speech_ended", "ai_response_started", "ai_response_ended",
     "user_interrupt", "ai_response_interrupted"}

\* the events the threads of the Agent post while it runs
ThreadEvents ==
    {"USER_SPEECH_STARTED", "USER_SPEECH_ENDED", "AI_RESPONSE_STARTED",
     "AI_RESPONSE_ENDED"}

\* one invocation of on_state_change: the label passed, and the turn-taking
\* state before and after the transition that caused it
Call(label, from, to) == [label |-> label, from |-> from, to |-> to]

UIInit ==
    [ current_state |-> "idle",   \* EventProcessor.current_state
      is_running |-> FALSE,       \* Agent.is_running
      phase |-> "new",            \* the Agent: new, run, stopping, stopped
      state |-> "IDLE",           \* StateManager._state
      running |-> TRUE,           \* StateManager._running: started by __init__
      event_queue |-> <<>>,       \* StateManager._event_queue
      posted |-> 0,               \* events posted by the threads
      calls |-> <<>>,             \* on_state_change as invoked by the latest step
      mgr |-> "test",             \* _process_events: test, get, over
      accepted |-> 0,             \* calls of post_event that returned True
      handled |-> 0,              \* events _handle_event was given
      notified |-> 0 ]            \* calls of _notify_state_listeners

\* the result of a handler: the state and the invocations of the callback
UR(st, calls) == [state |-> st, calls |-> calls]

\* EventProcessor._update_state
UpdateState(r, new_state) ==
    IF new_state # r.state
    THEN UR(new_state, Append(r.calls, Call(new_state, r.state, new_state)))
    ELSE r

\* EventProcessor.process_frame for a SYSTEM frame
EpProcessFrame(cur, event) ==
    LET r == UR(cur, <<>>)
    IN  CASE event = "speech_started" -> UpdateState(r, "user_speaking")
          [] event = "speech_ended" -> UpdateState(r, "listening")
          [] event = "ai_response_started" -> UpdateState(r, "speaking")
          [] event = "ai_response_ended" -> UpdateState(r, "listening")
          [] event = "user_interrupt" ->
                UpdateState(UpdateState(r, "interrupted"), "user_speaking")
          [] event = "ai_response_interrupted" ->
                UpdateState(UpdateState(r, "interrupted"), "listening")
          [] OTHER -> r

\* StateManager._handle_event, lines 130-149: the next state, None when the
\* event makes no transition
NextState(st, event) ==
    CASE event = "USER_SPEECH_STARTED" /\ st \in {"IDLE", "AI_SPEAKING"} -> "USER_SPEAKING"
      [] event = "USER_SPEECH_ENDED" /\ st = "USER_SPEAKING" -> "IDLE"
      [] event = "AI_RESPONSE_STARTED" /\ st = "IDLE" -> "AI_SPEAKING"
      [] event = "AI_RESPONSE_ENDED" /\ st \in {"AI_SPEAKING", "INTERRUPTED"} -> "IDLE"
      [] event = "USER_INTERRUPT" /\ st = "AI_SPEAKING" -> "INTERRUPTED"
      [] OTHER -> None

\* Agent._on_state_changed: the labels it passes to on_state_change
OnStateChanged(is_running, old_state, new_state) ==
    IF ~is_running THEN <<"initial">>
    ELSE IF old_state = "INTERRUPTED" /\ new_state = "IDLE" THEN <<>>
    ELSE CASE new_state = "IDLE" -> <<"listening">>
           [] new_state = "USER_SPEAKING" -> <<"user_speaking">>
           [] new_state = "AI_SPEAKING" -> <<"speaking">>
           [] new_state = "INTERRUPTED" -> <<"interrupted">>
           [] OTHER -> <<>>

\* StateManager._handle_event with the Agent as its state listener
HandleEvent(u, event) ==
    LET new_state == NextState(u.state, event)
    IN  IF new_state # None /\ new_state # u.state
        THEN LET labels == OnStateChanged(u.is_running, u.state, new_state)
             IN  UR(new_state,
                    [i \in 1..Len(labels) |-> Call(labels[i], u.state, new_state)])
        ELSE UR(u.state, <<>>)

\* StateManager.post_event
PostEvent(u, event) ==
    IF u.running THEN [u EXCEPT !.event_queue = Append(@, event)] ELSE u

NotUI == <<earsVars, recVars, mouthVars, genVars, pipeVars, stages, pl, vc, sm>>

\* a SYSTEM frame reaches the EventProcessor
EpFrame ==
    /\ \E event \in EpEvents :
         LET r == EpProcessFrame(ui.current_state, event)
         IN  ui' = [ui EXCEPT !.current_state = r.state, !.calls = r.calls]
    /\ UNCHANGED NotUI

\* Agent.start, lines 806-808
AgentStart ==
    /\ ui.phase = "new"
    /\ ui' = [ui EXCEPT !.phase = "run", !.is_running = TRUE, !.calls = <<>>]
    /\ UNCHANGED NotUI

\* a thread of the running Agent posts an event (lines 342, 377, 406, 508,
\* 741, 746)
AgentPost ==
    /\ ui.phase = "run"
    /\ ui.posted < MaxPosts
    /\ \E event \in ThreadEvents :
         ui' = [PostEvent(ui, event) EXCEPT !.posted = @ + 1, !.calls = <<>>]
    /\ UNCHANGED NotUI

\* StateManager._process_events takes an event and handles it
ManagerEvent ==
    /\ ui.running
    /\ ui.event_queue # <<>>
    /\ LET r == HandleEvent(ui, Head(ui.event_queue))
       IN  ui' = [ui EXCEPT !.event_queue = Tail(@), !.state = r.state,
                            !.calls = r.calls]
    /\ UNCHANGED NotUI

\* SystemEvent
SystemEvents == ThreadEvents \cup {"USER_INTERRUPT", "SESSION_ENDED"}

\* some thread calls StateManager.post_event
MgrPost ==
    /\ ui.posted < MaxManagerPosts
    /\ \E event \in SystemEvents :
         ui' = [PostEvent(ui, event) EXCEPT !.posted = @ + 1,
                                           !.accepted = IF ui.running THEN @ + 1 ELSE @,
                                           !.calls = <<>>]
    /\ UNCHANGED NotUI

\* StateManager._process_events, line 91: the loop test
MgrTest ==
    /\ ui.mgr = "test"
    /\ ui' = [ui EXCEPT !.mgr = IF ui.running THEN "get" ELSE "over"]
    /\ UNCHANGED NotUI

\* lines 94-108: the get times out, or an event is taken and handled
MgrGet ==
    /\ ui.mgr = "get"
    /\ IF ui.event_queue = <<>>
       THEN ui' = [ui EXCEPT !.mgr = "test"]
       ELSE LET r == HandleEvent(ui, Head(ui.event_queue))
            IN  ui' = [ui EXCEPT !.mgr = "test",
                                 !.event_queue = Tail(@),
                                 !.state = r.state,
                                 !.calls = r.calls,
                                 !.handled = @ + 1,
                                 !.notified = IF r.state # ui.state THEN @ + 1 ELSE @]
    /\ UNCHANGED NotUI

\* StateManager.stop, lines 81-84: the flag is cleared first, so that its own
\* post_event is refused
MgrStop ==
    /\ ui.running
    /\ ui' = [PostEvent([ui EXCEPT !.running = FALSE], "SESSION_ENDED")
                EXCEPT !.calls = <<>>]
    /\ UNCHANGED NotUI

\* StateManager.start, lines 71-77, when the thread of the earlier run is over
MgrStart ==
    /\ ~ui.running
    /\ ui.mgr = "over"
    /\ ui' = [ui EXCEPT !.running = TRUE, !.mgr = "test", !.calls = <<>>]
    /\ UNCHANGED NotUI

\* Agent.stop, lines 866-876: the flag cleared and the two events posted
AgentStopBegin ==
    /\ ui.phase = "run"
    /\ ui' = [PostEvent(PostEvent([ui EXCEPT !.is_running = FALSE], "USER_INTERRUPT"),
                        "SESSION_ENDED")
                EXCEPT !.phase = "stopping", !.calls = <<>>]
    /\ UNCHANGED NotUI

\* Agent.stop, lines 878-922, after its waits: the state manager stopped
\* and the callback told "idle"
AgentStopEnd ==
    /\ ui.phase = "stopping"
    /\ ui' = [ui EXCEPT !.phase = "stopped", !.running = FALSE,
                        !.calls = <<Call("idle", ui.state, ui.state)>>]
    /\ UNCHANGED NotUI

\* ------------------------------------------------------------------------
\* Specifications
\* ------------------------------------------------------------------------
Init ==
    /\ ears = EarsInit
    /\ ears_obs = EarsObsInit
    /\ scen = NoScenario
    /\ rec = RecInit
    /\ rec_obs = RecObsInit
    /\ mouth = MouthInit
    /\ workers = WorkersInit
    /\ ctl = CtlInit
    /\ now = 0
    /\ mouth_obs = MouthObsInit
    /\ ai = AIInit
    /\ resp = RespInit
    /\ ctx = CtxInit
    /\ user = UserInit
    /\ ai_obs = AIObsInit
    /\ pipe_obs = PipeObsInit
    /\ stages = StagesInit
    /\ pl = PipelineInit
    /\ vc = VoiceChatInit
    /\ sm = StateManagerInit
    /\ ui = UIInit

NextEars == EarsFrame \/ EarsFrameOverMax

SpecEars == Init /\ [][NextEars]_vars

InitScenario ==
    /\ ears = EarsInit
    /\ ears_obs = EarsObsInit
    /\ scen \in ScenarioInputs
    /\ rec = RecInit
    /\ rec_obs = RecObsInit
    /\ mouth = MouthInit
    /\ workers = WorkersInit
    /\ ctl = CtlInit
    /\ now = 0
    /\ mouth_obs = MouthObsInit
    /\ ai = AIInit
    /\ resp = RespInit
    /\ ctx = CtxInit
    /\ user = UserInit
    /\ ai_obs = AIObsInit
    /\ pipe_obs = PipeObsInit
    /\ stages = StagesInit
    /\ pl = PipelineInit
    /\ vc = VoiceChatInit
    /\ sm = StateManagerInit
    /\ ui = UIInit

NextScenario == ScenarioFrame

SpecScenario == InitScenario /\ [][NextScenario]_vars

NextRec == RecFrame \/ RecFrameOverMax

NextMouth ==
    \/ MouthPlayAudio
    \/ MouthStop
    \/ MouthStopStream
    \/ MouthClearPipeline
    \/ MouthClearStopStream
    \/ MouthPause
    \/ MouthStopWithFadeout
    \/ PlaybackThread
    \/ Tick

SpecMouth == Init /\ [][NextMouth]_vars

\* the Generation stage in a pipeline that is started and left running
NextGen ==
    \/ GenUserInterrupt
    \/ GenSpeechReady
    \/ ResponseThread
    \/ PipelineStart

SpecGen == Init /\ [][NextGen]_vars

\* ... and in one that its owner may reset and start again
NextSession == NextGen \/ PipelineReset

SpecSession == Init /\ [][NextSession]_vars

\* ... and in one whose AIProcessor is also handed DATA audio_data frames
NextTurns == NextGen \/ GenAudioData

SpecTurns == Init /\ [][NextTurns]_vars

\* the generation stage after COMPLETED_OVER response threads have ended, the
\* id of each one's request added to completed_request_ids (lines 296-300)
InitPrune ==
    /\ ears = EarsInit
    /\ ears_obs = EarsObsInit
    /\ scen = NoScenario
    /\ rec = RecInit
    /\ rec_obs = RecObsInit
    /\ mouth = MouthInit
    /\ workers = WorkersInit
    /\ ctl = CtlInit
    /\ now = 0
    /\ mouth_obs = MouthObsInit
    /\ ai = [AIInit EXCEPT !.completed_earlier = COMPLETED_OVER]
    /\ resp = RespInit
    /\ ctx = CtxInit
    /\ user = UserInit
    /\ ai_obs = AIObsInit
    /\ pipe_obs = PipeObsInit
    /\ stages = StagesInit
    /\ pl = PipelineInit
    /\ vc = VoiceChatInit
    /\ sm = StateManagerInit
    /\ ui = UIInit

NextPrune == NextTurns \/ \E t \in TurnIds : GenLateChunk(t)

SpecPrune == InitPrune /\ [][NextPrune]_vars

\* the frames exchanged by the stages; the playback and response threads,
\* which neither queue nor take frames, make no step here
NextPipe ==
    \/ PipelineStart
    \/ PipeEnqueueAI
    \/ PipeEnqueueMouth
    \/ PipeMicFrame
    \/ PipeAILoop
    \/ PipeMouthLoop

SpecPipe == Init /\ [][NextPipe]_vars

SpecRec == Init /\ [][NextRec]_vars

\* the AudioRecorder reading a long utterance: LatePrefix frames as laid
\* out above, then frames of any kind
\* the listening thread with a classifier that can fail
NextVad == NextRec \/ RecFrameError

SpecVad == Init /\ [][NextVad]_vars

NextRing == RecFrame \/ RecEndTimeout \/ RecGetSpeechFrames

SpecRing == Init /\ [][NextRing]_vars

NextLate == RecLateFrame

SpecLate == Init /\ [][NextLate]_vars

\* the pipeline started and stopped by its owner, with the microphone live
NextLife ==
    \/ LifeStart
    \/ LifeStopBegin
    \/ LifeStopStage
    \/ LifeStopEnd
    \/ MicCheck
    \/ MicPut
    \/ ProcessLoop

SpecLife == Init /\ [][NextLife]_vars

\* the pipeline started and stopped while responses are played: a chunk is
\* forwarded to Mouth only while the pipeline runs and is not cancelled
LivePlayAudio == Capturing /\ MouthPlayAudio

NextHalt ==
    \/ LifeStart
    \/ LifeStopBegin
    \/ LifeStopStage
    \/ LifeStopEnd
    \/ \E k \in StageIds : ProcessLoopIdle(k)
    \/ LivePlayAudio
    \/ PlaybackThread
    \/ Tick

SpecHalt == Init /\ [][NextHalt]_vars

\* the pipeline stopped and started again while Ears hears the user: Ears'
\* loop thread handles a microphone frame
LiveEarsFrame ==
    /\ ThreadAlive(stages[1])
    /\ ears_obs.frame_no < MaxLiveFrames
    /\ EarsFrame

NextRestart ==
    \/ LifeStart
    \/ LifeStopBegin
    \/ LifeStopStage
    \/ LifeStopEnd
    \/ \E k \in StageIds : ProcessLoopIdle(k)
    \/ LiveEarsFrame

SpecRestart == Init /\ [][NextRestart]_vars

\* the capture stage given stop commands while it handles microphone frames
NextMic == MicStart \/ MicData \/ EarsStopCommand \/ EarsStopClose

SpecMic == Init /\ [][NextMic]_vars

\* the conversation of the thread-per-role variant, never closed: every
\* thread of it keeps running
NextChat ==
    \/ VcStart
    \/ VcSpeech
    \/ VcSpeechAgain
    \/ VcSilence
    \/ VcDetection
    \/ VcUser
    \/ VcAccept
    \/ VcAi

SpecChat ==
    /\ Init
    /\ [][NextChat]_vars
    /\ WF_vars(VcDetection)
    /\ WF_vars(VcUser)
    /\ WF_vars(VcAccept)
    /\ WF_vars(VcAi)

\* ... with the calls of process_frame that the sends of SYSTEM frames make
NextBus == NextLife \/ Bus

SpecBus == Init /\ [][NextBus]_vars

\* the turn-taking state machines fed with events, the Agent started and
\* stopped
NextUI ==
    \/ EpFrame
    \/ AgentStart
    \/ AgentPost
    \/ ManagerEvent
    \/ AgentStopBegin
    \/ AgentStopEnd

SpecUI == Init /\ [][NextUI]_vars

\* the StateManager alone: events posted by any thread, the manager stopped
\* and started; its thread is scheduled again and again
NextManager == MgrPost \/ MgrTest \/ MgrGet \/ MgrStop \/ MgrStart

SpecManager ==
    /\ Init
    /\ [][NextManager]_vars
    /\ WF_vars(MgrTest)
    /\ WF_vars(MgrGet)

\* every loop of the system and the stop requests, with nothing queued; each
\* thread is scheduled again and again
NextStop ==
    \/ LifeStart
    \/ LifeStopBegin
    \/ LifeStopStage
    \/ LifeStopEnd
    \/ \E k \in StageIds : ProcessLoopIdle(k)
    \/ VcStart
    \/ VcClose
    \/ VcSpeech
    \/ VcSilence
    \/ VcDetection
    \/ VcUser
    \/ SmStart
    \/ SmPost
    \/ SmStop
    \/ SmLoop

SpecStop ==
    /\ Init
    /\ [][NextStop]_vars
    /\ \A k \in StageIds : WF_vars(ProcessLoopIdle(k))
    /\ WF_vars(VcDetection)
    /\ WF_vars(VcUser)
    /\ WF_vars(SmLoop)

\* ------------------------------------------------------------------------
\* Properties of the capture stage
\* ------------------------------------------------------------------------
\* the payloads of the speech_ready frames sent by the latest handler
ReadyPayloads ==
    { ears_obs.sent[i].payload : i \in { j \in 1..Len(ears_obs.sent) : IsReady(ears_obs.sent[j]) } }

\* the first position of frame n in a payload (0: absent)
FirstPos(p, n) ==
    IF \E i \in 1..Len(p) : p[i] = n
    THEN CHOOSE i \in 1..Len(p) : p[i] = n /\ \A j \in 1..(i - 1) : p[j] # n
    ELSE 0

\* the payload p holds, right before the frame c, the k frames captured
\* right before c, in capture order
HasPreRoll(p, c, k) ==
    LET pos == FirstPos(p, c)
    IN  /\ pos > k
        /\ \A d \in 1..k : p[pos - d] = c - d

C6_ScenarioPayload ==
    /\ ears_obs.frame_no = ScenarioLen => scen.n_ready = 1
    /\ \A p \in ReadyPayloads :
          Len(p) = PRE_BUFFER_FRAMES + ScenarioSpeech
                     + MIN_NEG_FRAMES_FOR_ENDING + END_BUFFER_FRAMES

\* the part of C6 that the code keeps: one speech_ready in the scenario
C6_OneReady ==
    /\ scen.n_ready <= 1
    /\ ears_obs.frame_no = ScenarioLen => scen.n_ready = 1

\* ------------------------------------------------------------------------
\* Properties of the AudioRecorder
\* ------------------------------------------------------------------------
\* C5: when an utterance end is confirmed (not forced by the duration
\* ceiling), the recorded end boundary is the index of the first silent frame
\* of the confirmed trailing silence run.
C5_EndAtFirstSilentFrame ==
    (rec_obs.ended /\ ~rec_obs.forced) =>
        rec.speech_end_index = rec_obs.silence_from

\* what the code records instead when the end is confirmed after a run of
\* silence: the index at which the silence threshold was reached
C5_EndAtThreshold ==
    (rec_obs.ended /\ ~rec_obs.forced
        /\ rec_obs.confirmed_at - rec_obs.silence_from + 1
             = MIN_NEG_FRAMES_FOR_ENDING + END_BUFFER_FRAMES - 1) =>
        rec.speech_end_index = rec_obs.silence_from + MIN_NEG_FRAMES_FOR_ENDING - 1

\* C7 (P5, idempotent stop): when stop_immediately is called again on a Mouth
\* that a first stop_immediately has brought to rest, with no other call in
\* between, the terminal state (FIFO, stream, is_playing, should_stop,
\* smooth_interrupt, fade_out_active) is the one the first call left.
C7_IdempotentStop ==
    (mouth_obs.last = "stop" /\ Quiescent(workers, ctl))
        => \A once \in mouth_obs.once : TerminalState(mouth) = once

\* C8 (P6, fade bounded): the audio written to the device after a fade-out
\* stop was asked lasts no longer than the fade-out duration plus one chunk,
\* however much audio was queued when it was asked.
C8_FadeBounded ==
    mouth_obs.fade_at # -1
        => (Len(mouth_obs.device) - mouth_obs.fade_at) * ChunkMs
               <= mouth_obs.fade_for + ChunkMs

\* C1 (P1, no stale audio): no play_audio chunk of a turn is sent to the
\* Playback stage after the user_interrupt of a later utterance was handled
\* by the Generation stage.
C1_NoStaleAudio == ~ai_obs.stale_audio

\* C2: a turn that a later user_interrupt superseded and whose loop was ended
\* by one of the per-chunk checks ends marked interrupted, with no assistant
\* message appended to the history, whichever check it was.
C2_SupersededInterrupted ==
    \A t \in TurnIds :
        (ai_obs.interrupts > ai_obs.born[t] /\ ai_obs.detected[t] # "none"
            /\ ai_obs.outcome[t] # "none")
        => (ai_obs.outcome[t] = "interrupted" /\ ~ai_obs.appended[t])

\* C9: no response thread makes a side effect (transcript accumulated, audio
\* forwarded, history appended) once the context's session_id is no longer
\* the one its request was opened under.
C9_SessionChecked == ~ai_obs.stale_effect

\* C10: is_generating is never left stuck: when no response thread is
\* running, however the last one ended, is_generating is false.
C10_NotStuck == (\A t \in TurnIds : ~Running(resp, t)) => ~ai.is_generating

\* a response thread was ended by an exception, a speech_ready that came when
\* no thread was running has started a new response, and that one is over too
C10_Witness ==
    /\ ai_obs.restarted
    /\ \A w \in TurnIds : ~Running(resp, w)
    /\ Cardinality({w \in TurnIds : resp[w].pc = "done"}) >= 2

C11_FinalizedOnce ==
    (\A t \in TurnIds : ~Running(resp, t)) => ai_obs.open = 0


\* the assistant messages of turn t in the conversation history
AssistantOf(t) ==
    LET IsMine(m) == m.role = "assistant" /\ m.of = t
    IN  SelectSeq(ai.messages, IsMine)

\* the response threads that have not yet sent their ai_response_ended
Unended == {v \in TurnIds : Running(resp, v) /\ resp[v].pc # "finally"}

\* C12: a turn whose stream came to its end, with no check having stopped
\* it, has exactly one assistant message in the history, made of the
\* accumulated transcript when there is one and of the raw text otherwise,
\* and none when it accumulated neither; its ai_response_ended has been sent.
C12_AppendOnCompletion ==
    \A t \in TurnIds :
        (ai_obs.outcome[t] = "completed" /\ ai_obs.detected[t] = "none")
        => /\ AssistantOf(t) =
                CASE ai_obs.had[t] \in {"both", "current_transcript"} ->
                         <<Message("assistant", t, "current_transcript")>>
                  [] ai_obs.had[t] = "ai_text" ->
                         <<Message("assistant", t, "ai_text")>>
                  [] OTHER -> <<>>
           /\ ai_obs.open = Cardinality(Unended)

\* a turn that accumulated both a transcript and raw text has completed
C12_Witness ==
    \E t \in TurnIds :
        /\ ai_obs.outcome[t] = "completed"
        /\ ai_obs.detected[t] = "none"
        /\ ai_obs.had[t] = "both"
        /\ Len(AssistantOf(t)) = 1


\* ------------------------------------------------------------------------
\* Properties of the Playback stage's queue, stream and threads
\* ------------------------------------------------------------------------
\* C13: once stop_immediately has been requested, a chunk of the response
\* stream offered to add_audio_data next is refused: it is not put in the
\* FIFO (no smooth interrupt is in progress then).
C13_RefusedAfterStop ==
    [][(mouth_obs.last \in {"stopping", "stop"} /\ mouth_obs'.offered > mouth_obs.offered)
          => mouth'.audio_queue = mouth.audio_queue]_vars

\* stop_immediately, alone or for clear_pipeline, returns
HardStopReturns == ctl.pc # "idle" /\ ctl'.pc = "idle"

\* a smooth or fade-out stop asked of a playing Mouth has completed: its
\* playback thread is over and no stream was opened since
SmoothStopCompleted ==
    mouth_obs.fade_at # -1 /\ Quiescent(workers, ctl) /\ ~mouth.is_playing

\* C14: the FIFO is empty after any stop: when stop_immediately returns, for
\* the stop or the clear_pipeline command, and when a smooth or fade-out stop
\* has completed, so that nothing queued before is left to a later stream.
C14_ClearedOnStop ==
    [][/\ HardStopReturns => mouth'.audio_queue = <<>>
       /\ SmoothStopCompleted' => mouth'.audio_queue = <<>>]_vars

\* the playback threads that are alive
AliveWorkers == {w \in WorkerIds : IsAlive(workers, w)}

\* C15: at most one device stream is open and at most one playback thread
\* is alive.
C15_OneStreamOneWorker ==
    /\ Cardinality(mouth.open_streams) <= 1
    /\ Cardinality(AliveWorkers) <= 1

\* no chunk is left in a playback thread's buffer to be written
NoWritePending == \A w \in WorkerIds : workers[w].buffer = <<>>

\* C16: is_audio_complete() is true exactly when the FIFO is empty and no
\* playback thread holds audio still to be written.
C16_AudioComplete ==
    IsAudioComplete(mouth) <=> (mouth.audio_queue = <<>> /\ NoWritePending)


\* ------------------------------------------------------------------------
\* Properties of the pipeline's life and of the loops
\* ------------------------------------------------------------------------
\* the frames the microphone callback has queued
AllFrames == 1..pl.enqueued

\* where a frame of processor k can be: queued, taken, handled, or discarded
\* by a stop
Kept(k) ==
    QueuedNos(stages[k].input_queue) \cup stages[k].handled
        \cup (IF stages[k].frame.no # 0 THEN {stages[k].frame.no} ELSE {})

\* C17: an exception of process_frame does not end the loop: a loop is over
\* only when its processor was stopped or the pipeline cancelled, and of the
\* frames queued only those process_frame raised on are lost.
C17_LoopSurvives ==
    /\ \A k \in StageIds :
          stages[k].pc = "over" => (~stages[k].is_running \/ ctx.cancelled)
    /\ AllFrames \ (Kept(1) \cup pl.cleared) = stages[1].failed
    /\ stages[1].failed \cap stages[1].handled = {}

\* the loop has handled a frame queued after one that process_frame raised on
C17_Witness ==
    \E f \in stages[1].failed : \E h \in stages[1].handled : h > f

\* C18: when ConversationPipeline.stop returns, every processor has
\* is_running false and an empty input queue.
C18_StoppedAndDrained ==
    [][(pl.pc = "stopping" /\ pl'.pc = "idle")
          => \A k \in StageIds :
                ~stages'[k].is_running /\ stages'[k].input_queue = <<>>]_vars

\* C19: a start() of a pipeline that is not running opens a new session,
\* clears the cancellation flag, starts every processor and gives the first
\* one exactly one start command; a start() of a running pipeline changes
\* nothing and gives no command.
C19_StartResets ==
    [][pl'.start_calls > pl.start_calls
          => IF ctx.is_running
             THEN /\ ctx' = ctx
                  /\ stages' = stages
                  /\ pl'.start_commands = pl.start_commands
             ELSE /\ ctx'.session_id # ctx.session_id
                  /\ ~ctx'.cancelled
                  /\ \A k \in StageIds : stages'[k].is_running
                  /\ pl'.start_commands = pl.start_commands + 1]_vars

\* C20: once a stop is requested, every loop observes it and ends: the
\* threads of the voice chat after close, the processors' loops after the
\* pipeline is cancelled, the StateManager's loop after its stop.
C20_StopObserved ==
    /\ (vc.phase = "closed") ~> (vc.det = "over" /\ vc.usr = "over")
    /\ ctx.cancelled ~> (\A k \in StageIds : ~ThreadAlive(stages[k]))
    /\ (sm.pc # "none" /\ ~sm.running) ~> (sm.pc = "over")


\* ------------------------------------------------------------------------
\* Properties of the Generation stage's threads
\* ------------------------------------------------------------------------
\* C21: the conversation history is appended to by one thread only, the
\* Generation stage's own worker thread, and never by the capture thread.
C21_OwnedByWorker ==
    /\ "capture" \notin ai_obs.writers
    /\ Cardinality(ai_obs.writers) <= 1

\* the response threads that were started and are not over
LiveThreads == {t \in TurnIds : Running(resp, t)}

\* C23: at most one response thread exists at any time: none is started
\* while an earlier one is not over.
C23_OneResponseThread == Cardinality(LiveThreads) <= 1

\* C24: the finally block of a response thread changes is_generating,
\* current_request_id and response_thread only when they are its own turn's,
\* and a turn ends interrupted only when a user_interrupt was handled, or the
\* pipeline cancelled, after it began.
C24_CleanupOwnTurn ==
    [][\A t \in TurnIds :
          /\ (resp[t].pc = "finally" /\ resp'[t].pc = "done"
                 /\ ai.response_thread \notin {0, t})
              => /\ ai'.is_generating = ai.is_generating
                 /\ ai'.current_request_id = ai.current_request_id
                 /\ ai'.response_thread = ai.response_thread
          /\ ai_obs'.outcome[t] = "interrupted"
              => (ai_obs'.interrupts > ai_obs'.born[t] \/ ctx'.cancelled)]_vars

\* the frames a per-chunk check of turn t sends downstream
CheckSends(t) ==
    IF resp[t].pc = "check1" THEN RespCheck1(ai, resp, t, ctx).out
    ELSE RespCheck2(ai, resp, t, ctx).out

\* C30: when a per-chunk check of a response thread fails, the turn is
\* marked interrupted, the loop is left, and a stop command is sent
\* downstream.
C30_CheckFailurePropagates ==
    [][\A t \in TurnIds :
          (ai_obs.detected[t] = "none" /\ ai_obs'.detected[t] # "none")
          => /\ resp'[t].interrupted
             /\ resp'[t].pc = "finish"
             /\ \E i \in 1..Len(CheckSends(t)) : CheckSends(t)[i].command = "stop"]_vars


\* ------------------------------------------------------------------------
\* Properties of the observer callback
\* ------------------------------------------------------------------------
\* the labels of the turn-taking state
Labels == {"idle", "listening", "user_speaking", "speaking", "interrupted"}

\* C22: on_state_change is invoked only for a transition that changes the
\* turn-taking state, and only with one of the five labels.
C22_CallbackOnChange ==
    \A i \in 1..Len(ui.calls) :
        /\ ui.calls[i].label \in Labels
        /\ ui.calls[i].from # ui.calls[i].to


\* ------------------------------------------------------------------------
\* Properties of the end of an utterance
\* ------------------------------------------------------------------------
\* the listening thread reads a frame that vad_predict classifies as speech
ReadsSpeech ==
    /\ rec'.current_buffer_index = rec.current_buffer_index + 1
    /\ rec_obs'.silence_from = 0

\* C25: a speech frame read while the end of the utterance is being
\* confirmed cancels the end: the recorder is collecting again, not
\* confirming, and no end is signalled.
C25_FalseEndpointRecovery ==
    [][(rec.is_ending /\ ReadsSpeech)
          => /\ ~rec'.is_ending
             /\ rec'.speech_start_time
             /\ ~rec_obs'.ended]_vars


\* C26: Ears confirms the end of an utterance (not forced by the duration
\* ceiling) only when END_BUFFER_FRAMES silent frames have followed the frame
\* at which the silence run reached MIN_NEG_FRAMES_FOR_ENDING.
C26_EndAfterBuffer ==
    (CountReady(ears_obs.sent) > 0 /\ ~ears_obs.forced)
        => ears_obs.silence_run >= MIN_NEG_FRAMES_FOR_ENDING + END_BUFFER_FRAMES

\* ------------------------------------------------------------------------
\* Properties of the start of an utterance
\* ------------------------------------------------------------------------
\* the positions of the frames of an event among those the latest handler sent
SentAt(event) ==
    {i \in 1..Len(ears_obs.sent) : ears_obs.sent[i].event = event}

\* the latest handler entered Collecting
Entered == ~ears_obs.was_collecting /\ ears.is_collecting_speech

Contiguous(p) == \A i \in 1..(Len(p) - 1) : p[i + 1] = p[i] + 1

\* C28: the utterance in progress and every emitted payload are a run of
\* consecutive captured frames: no gap, no frame twice.
C28_ContiguousPayload ==
    /\ Contiguous(ears.speech_frames)
    /\ \A p \in ReadyPayloads : Contiguous(p)

\* C29: the barge-in is sent once for every utterance, by the handler that
\* enters Collecting, ahead of speech_started and of the utterance's
\* speech_ready; every frame Ears sends is handled by the next stage as it is
\* sent.
C29_BargeInOnceFirst ==
    /\ SentAt("user_interrupt") # {} <=> Entered
    /\ \A i \in SentAt("user_interrupt") :
          \A j \in SentAt("speech_started") \cup SentAt("speech_ready") : i < j
    /\ SentAt("speech_started") # {} => SentAt("user_interrupt") # {}
    /\ (ears.is_collecting_speech \/ SentAt("speech_ready") # {}) => ears_obs.barge = 1
    /\ \A i \in 1..Len(ears_obs.sent) : Direct(ears_obs.sent[i])

\* the second utterance of a run ends: its speech_ready is sent
C29_Witness ==
    /\ SentAt("speech_ready") # {}
    /\ ears_obs.barge = 1
    /\ ears_obs.confirm_frame > SPEECH_CONFIRM_FRAMES + MIN_NEG_FRAMES_FOR_ENDING

\* C31: a chunk of a request that arrives after the request's id was marked
\* completed or interrupted is dropped by the check at the start of the chunk:
\* its text is not accumulated, its audio is not forwarded and the turn is
\* not appended to the history, also after completed_request_ids was pruned
C31_StaleChunkDropped ==
    \A t \in TurnIds :
        ai_obs.late[t] =>
            /\ resp[t].pc \in {"check1", "finish", "finally"}
            /\ resp[t].pc = "finish" => resp[t].interrupted
            /\ ~ai_obs.appended[t]

\* C32: every barge-in (a user_interrupt handled by the generation stage)
\* and every reset of the pipeline leaves session_id strictly greater than
\* it was before
C32_SessionIdIncrements ==
    [][(ai_obs'.interrupts > ai_obs.interrupts \/ ai_obs'.resets > ai_obs.resets)
          => ctx'.session_id > ctx.session_id]_vars

\* C33: a frame on which the classifier raises is handled exactly like a
\* silent frame: it is appended to the buffers and the counters and flags of
\* the listening thread become what a silent frame would have made them
C33_ErrorIsSilence ==
    [][rec_obs'.error =>
          \E over_max \in BOOLEAN :
              rec' = RecIteration(rec, rec.current_buffer_index + 1, FALSE, over_max)]_vars

\* C34: at no time are two threads inside the process_frame of the same
\* processor
C34_OneThreadInHandler ==
    \A k \in StageIds : Cardinality({h \in ThreadIds : Inside(h, k)}) <= 1

\* ConversationPipeline.stop has returned and start has not been called since
Halted == pl.pc = "idle" /\ ~ctx.is_running /\ ctx.cancelled

\* C35: once ConversationPipeline.stop has returned, nothing more is written
\* to the output device and no chunk is offered to Mouth
C35_SilentAfterStop ==
    [][Halted => /\ mouth_obs'.device = mouth_obs.device
                 /\ mouth_obs'.offered = mouth_obs.offered]_vars

\* C36: the start() that follows a stop() leaves Ears idle: both counters
\* zero, not collecting, no speech detected and no utterance in progress
C36_IdleAfterRestart ==
    [][(Halted /\ ctx'.is_running)
          => /\ ears'.consecutive_speech_frames = 0
             /\ ears'.consecutive_silence_frames = 0
             /\ ~ears'.is_collecting_speech
             /\ ~ears'.speech_detected
             /\ ears'.speech_frames = <<>>]_vars

\* C37: every utterance accepted by _process_user_audio is followed by the
\* start of an AI response turn that has it in its history: a turn whose
\* session id is the one the utterance was given, or a later one
C37_AcceptedGetsTurn ==
    \A n \in 1..(MaxSpeech + MaxMoreSpeech) :
        (vc.current_session_id >= n) ~> (vc.turn_session >= n)

\* the frames captured after index from, up to index to
RingFrames(from, to) == [i \in 1..(to - from) |-> from + i]

\* C38: get_speech_frames returns exactly the frames whose capture indices
\* lie between speech_start_index and speech_end_index, in capture order,
\* whatever the number of frames in the ring and the number of frames captured
\* after the end index, as long as the start index is still in the ring
C38_ExactlyTheUtterance ==
    (/\ rec_obs.got
     /\ rec.speech_start_index >= 0
     /\ rec.speech_end_index >= rec.speech_start_index
     /\ rec.speech_start_index >= rec.current_buffer_index - Len(rec.long_buffer))
        => rec_obs.frames = RingFrames(rec.speech_start_index, rec.speech_end_index)

TableStep ==
    /\ ui'.state # ui.state =>
          /\ ui.event_queue # <<>>
          /\ ui'.state = NextState(ui.state, Head(ui.event_queue))
          /\ ui'.handled = ui.handled + 1
    /\ ui'.handled # ui.handled =>
          /\ ui'.handled = ui.handled + 1
          /\ ui.event_queue # <<>>
          /\ ui'.event_queue = Tail(ui.event_queue)
    /\ ui'.notified = ui.notified + (IF ui'.state # ui.state THEN 1 ELSE 0)

AlongTable == [][TableStep]_vars

AcceptedIsHandled ==
    \A n \in 1..MaxManagerPosts : (ui.accepted >= n) ~> (ui.handled >= n)

\* C40: the state of the StateManager changes only by handling the event at
\* the head of the queue, to the state the transition table gives; events are
\* handled in the order they were accepted; the state listeners are notified
\* exactly once for each change of the state; and every event that post_event
\* accepted is eventually handled
C40_TableAndDelivery == AlongTable /\ AcceptedIsHandled

====
